---- MODULE Spec2Model ----
(***************************************************************************)
(* Movie-Night-Picker-API: the TMDB datasource's cache and request         *)
(* coordinator (getCachedOrRequest), getMovie's three-way fan-out, the     *)
(* directly cached list methods (getGenres, getPageMetadata), and the      *)
(* progressive fallback search of suggestMovie.                            *)
(***************************************************************************)
EXTENDS Integers, Sequences, FiniteSets, TLC

(***************************************************************************)
(* Bounds of the model.                                                    *)
(***************************************************************************)
MaxTime == 2
MaxCalls == 3
MaxPromises == 4
NumMovieIds == 1
MaxListCalls == 3
MaxGenres == 2
NumPopularIds == 3
MaxRandomCalls == 2
MaxActorRetries == 3
NumActorMovies == 3
NumPersons == 2
MaxPeople == 3
NumInsightMovies == 2
MaxInsightRuns == 2
MaxExtractMovies == 7
NumFillIds == 5
MaxRoundSamples == 24
MaxSearchCalls == 2
MaxSearchTime == 1
NumUsers == 2
NumCollections == 2
MaxHistoryCalls == 2
NumFilterMovieIds == 2
MaxFilterMovies == 2

MovieIds == 1..NumMovieIds

(***************************************************************************)
(* Time is counted in half hours; Date.now() is `now`.                     *)
(***************************************************************************)
TimeUnit == 30 * 60 * 1000
CACHE_TTL_MOVIE == (30 * 60 * 1000) \div TimeUnit
CACHE_TTL_MOVIE_CREDITS == (60 * 60 * 1000) \div TimeUnit
CACHE_TTL_GENRES == (24 * 60 * 60 * 1000) \div TimeUnit
CACHE_TTL_PAGE_METADATA == (30 * 60 * 1000) \div TimeUnit
MAX_PAGES == 500

\* The page counts an upstream response reports.
TotalPagesValues == {0, 1, 3, MAX_PAGES + 1}

CacheKeys == {"movie", "movie_videos", "movie_credits"}

(***************************************************************************)
(* Options.  A GraphQL options input is absent or carries a region (absent,*)
(* the empty string, or a code) and an includeAdult (absent, null, or a    *)
(* boolean); a TMDBOptions value is undefined or an object, of which only  *)
(* the set of its keys matters here.                                       *)
(***************************************************************************)
GraphQLOptionsInputs ==
  [present : BOOLEAN, region : {"absent", "", "US"},
   includeAdult : {"absent", "null", "false", "true"}]

Undefined == [defined |-> FALSE, keys |-> {}]
OptionsObject(keys) == [defined |-> TRUE, keys |-> keys]

\* utils/tmdbOptionsConverter.ts convertGraphQLOptionsToTMDBOptions
convertGraphQLOptionsToTMDBOptions(options) ==
  IF ~options.present THEN Undefined
  ELSE LET keys == (IF options.region \notin {"absent", ""} THEN {"region"} ELSE {})
                     \cup (IF options.includeAdult # "absent"
                             THEN {"includeAdult"} ELSE {})
       IN IF Cardinality(keys) > 0 THEN OptionsObject(keys) ELSE Undefined

\* What getMovie is called with: what the resolvers pass on, and {}.
OptionValues ==
  {convertGraphQLOptionsToTMDBOptions(g) : g \in GraphQLOptionsInputs}
    \cup {OptionsObject({})}

VARIABLES
  now,              \* Date.now()
  cache,            \* movieCache, movieVideosCache, movieCreditsCache
  pendingRequests,  \* pendingKey -> promise (0: no entry)
  promises,         \* every promise a requestFn created, in creation order
  log,              \* the invocations of getMovie and getCachedOrRequest, in
                    \* order, each with what its caller awaits and received
  genresCache,      \* genresCache
  pageMetadataCache,\* pageMetadataCache
  listCalls,        \* the invocations of getGenres and getPageMetadata
  filters,          \* suggestMovie: the filters built from the preferences
  fallbackParams,   \* suggestMovie: the variants to try
  idx,              \* suggestMovie: the variant the loop is at
  tmdbMovies,       \* suggestMovie: the result of the last discover call
  issued,           \* the parameters of the discover calls issued, in order
  selectedMovie,    \* suggestMovie: the movie picked
  spc,              \* suggestMovie: where the resolver is
  shArgs,           \* shuffleMovie: the arguments
  shFilters,        \* shuffleMovie: discoverFilters
  shCalls,          \* shuffleMovie: the discover calls issued, in order
  shMovies,         \* shuffleMovie: tmdbMovies
  shSelected,       \* shuffleMovie: the movie picked (0: none)
  shpc,             \* shuffleMovie: where the resolver is
  historySet,       \* suggestMovie (random popular): the ids of the history
  selectedMovieIdsSet, \* suggestMovie (random popular): the selected ids
  randomMovie,      \* suggestMovie (random popular): the movie kept (0: null)
  retries,          \* suggestMovie (random popular): retries
  fallbackRetries,  \* suggestMovie (random popular): fallbackRetries
  sampled,          \* the number of getRandomMovieFromSource calls made
  ppc,              \* suggestMovie (random popular): where the resolver is
  randomCalls,      \* the invocations of getRandomMovie(FromSource), in order
  reportedPages,    \* cacheKey -> the total_pages of the response that the
                    \* cached page metadata was computed from
  maxRetries_actor, \* getRandomActorFromSource: maxRetries
  attempts,         \* getRandomActorFromSource: attempts
  seenMovieIds,     \* getRandomActorFromSource: seenMovieIds
  actorMovieId,     \* getRandomActorFromSource: movieId (0: none yet)
  sampledMovies,    \* the movies getRandomMovieFromSource returned, in order
  creditsFetched,   \* the getMovieCredits calls made, in order, each with
                    \* the movie id and what it gave
  actorResult,      \* getRandomActorFromSource: what it returns or throws
  apc,              \* getRandomActorFromSource: where the method is
  roleType,         \* the filter methods: which role is kept
  people,           \* the filter methods: personIds / people
  personCredits,    \* person id -> what getPersonCombinedCredits gives
  batchStart,       \* the filter methods: i
  filtered,         \* the filter methods: actorIds / crewIds / filtered
  fpc,              \* the filter methods: where the method is
  collectionMovies, \* the tmdbIds of the collection, as findMany returns them
  tmdbData,         \* tmdbId -> what getMovie and getMovieKeywords give
  insightMovies,    \* calculateCollectionInsights: movies
  keywordsByMovieId,\* calculateCollectionInsights: keywordsByMovieId
  batchIndex,       \* calculateCollectionInsights: i
  insightsRuns,     \* the results of the finished runs, in order
  ipc,              \* calculateCollectionInsights: where the function is
  buildArgs,        \* buildDiscoverParams: filters and useSingle
  builtParams,      \* buildDiscoverParams: the params returned
  bpc,              \* buildDiscoverParams: called or returned
  shouldTry,        \* shouldTryFallback on the same filters: <<>>, or what
                    \* it returned
  limitedMovieIds,  \* extractActorsFromMovies: limitedMovieIds
  creditsCalls,     \* extractActorsFromMovies: per movie of limitedMovieIds,
                    \* where its getMovieCredits call is
  epc,              \* extractActorsFromMovies: where the method is
  roundHistorySet,  \* suggestMovieRound: historySet
  validMovies,      \* suggestMovieRound: the ids of validMovies, in order
  fillRetries,      \* suggestMovieRound: fillRetries
  roundMovieId,     \* suggestMovieRound: movieId of the movie being fetched
  roundSampled,     \* the getRandomMovieFromSource calls the fill loops made
  rpc,              \* suggestMovieRound: where the resolver is
  searchNow,        \* Date.now() of the search methods, in units of 5 minutes
  searchCache,      \* searchCache: cache key -> entry, with the domain and
                    \* the upstream results it was written from
  searchCalls,      \* the invocations of the search methods, in order
  dbCollections,    \* the Collection table: id -> row (exists: FALSE when
                    \* the id has no row)
  dbCollectionMovies, \* the CollectionMovie table: <<collectionId, tmdbId>>
  nextCollectionId, \* the next id the Collection table hands out
  lastMutation,     \* the last collection mutation: who called it on what,
                    \* what the tables held, and whether it failed
  historyRows,      \* the suggestMovieHistory rows of the user, oldest
                    \* createdAt first
  nextRowId,        \* the next id the suggestMovieHistory table hands out
  historyCalls,     \* the addToSuggestHistory calls: where each is, and its
                    \* existing, count and oldestEntries
  recency,          \* the movies written (created or touched), in the order
                    \* of the writes, each once at its last write
  cfArgs,           \* filterMoviesByCollections: the arguments
  cfResult,         \* filterMoviesByCollections: the list returned
  cfpc              \* filterMoviesByCollections: called or returned

coordVars == <<cache, pendingRequests, promises, log>>
listVars == <<genresCache, pageMetadataCache, listCalls>>
suggestVars == <<filters, fallbackParams, idx, tmdbMovies, issued, selectedMovie, spc>>
shuffleVars == <<shArgs, shFilters, shCalls, shMovies, shSelected, shpc>>

\* The variables of the resolvers and methods other than getMovie, the
\* request coordinator, the list methods and suggestMovie's fallback loop.
popularVars ==
  <<historySet, selectedMovieIdsSet, randomMovie, retries, fallbackRetries, sampled, ppc>>
randomVars == <<randomCalls, reportedPages>>
actorVars ==
  <<maxRetries_actor, attempts, seenMovieIds, actorMovieId, sampledMovies, creditsFetched,
    actorResult, apc>>
filterVars == <<roleType, people, personCredits, batchStart, filtered, fpc>>
insightsVars ==
  <<collectionMovies, tmdbData, insightMovies, keywordsByMovieId, batchIndex,
    insightsRuns, ipc>>
buildVars == <<buildArgs, builtParams, bpc, shouldTry>>
extractVars == <<limitedMovieIds, creditsCalls, epc>>
searchVars == <<searchNow, searchCache, searchCalls>>
roundVars ==
  <<roundHistorySet, validMovies, fillRetries, roundMovieId, roundSampled, rpc>>
collectionsVars == <<dbCollections, dbCollectionMovies, nextCollectionId, lastMutation>>
historyVars == <<historyRows, nextRowId, historyCalls, recency>>
collectionFilterVars == <<cfArgs, cfResult, cfpc>>
moreVars ==
  <<shuffleVars, popularVars, randomVars, actorVars, filterVars, insightsVars, buildVars,
    extractVars, roundVars, searchVars,
    collectionsVars,
    historyVars,
    collectionFilterVars>>

\* The variables of the other resolvers and methods, which the steps of
\* part `g` leave alone.
MoreUnchangedExcept(g) ==
  /\ IF g = "shuffle" THEN TRUE ELSE UNCHANGED shuffleVars
  /\ IF g = "popular" THEN TRUE ELSE UNCHANGED popularVars
  /\ IF g = "random" THEN TRUE ELSE UNCHANGED randomVars
  /\ IF g = "actor" THEN TRUE ELSE UNCHANGED actorVars
  /\ IF g = "filter" THEN TRUE ELSE UNCHANGED filterVars
  /\ IF g = "insights" THEN TRUE ELSE UNCHANGED insightsVars
  /\ IF g = "build" THEN TRUE ELSE UNCHANGED buildVars
  /\ IF g = "extract" THEN TRUE ELSE UNCHANGED extractVars
  /\ IF g = "round" THEN TRUE ELSE UNCHANGED roundVars
  /\ IF g = "search" THEN TRUE ELSE UNCHANGED searchVars
  /\ IF g = "collections" THEN TRUE ELSE UNCHANGED collectionsVars
  /\ IF g = "history" THEN TRUE ELSE UNCHANGED historyVars
  /\ IF g = "collectionFilter" THEN TRUE ELSE UNCHANGED collectionFilterVars

(***************************************************************************)
(* Values.  A payload is a tuple of naturals: <<p>> is the body of the     *)
(* upstream response to the request of promise p, <<>> is "no data", and   *)
(* a movie entity is <<detail, videos, credits>> where 0 stands for the    *)
(* empty default ({results: []}, {cast: [], crew: []}).                    *)
(***************************************************************************)
NoData == <<>>
NoEntry == [data |-> NoData, timestamp |-> -1, ttl |-> 0]
NoSrc == [k |-> "none", v |-> NoData, p |-> 0]
ValSrc(v) == [k |-> "val", v |-> v, p |-> 0]
PromSrc(p) == [k |-> "prom", v |-> NoData, p |-> p]
NoRes == [ok |-> FALSE, v |-> NoData, p |-> 0]

IsCacheValid_Inclusive(entry, t) ==
  IF entry.timestamp < 0 THEN FALSE ELSE t - entry.timestamp <= entry.ttl

IsCacheValid_Never(entry, t) == FALSE

\* client.ts isCacheValid
IsCacheValid(entry, t) ==
  IF entry.timestamp < 0 THEN FALSE ELSE t - entry.timestamp < entry.ttl

\* client.ts line 102: `${cacheKey}_${id || "global"}`
PendingKey(cacheKey, id) ==
  cacheKey \o "_" \o (IF id = 0 THEN "global" ELSE ToString(id))

PendingKeys == {PendingKey(k, id) : k \in CacheKeys, id \in MovieIds}

HasPending_Never(pr, pendingKey) == FALSE

\* client.ts line 103: this.pendingRequests.has(pendingKey)
HasPending(pr, pendingKey) == pr[pendingKey] # 0

\* The part of the state the synchronous prefix of a call reads and writes.
StateOf(c, pr, ps, l, t) ==
  [cache |-> c, pendingRequests |-> pr, promises |-> ps, log |-> l, now |-> t]

\* client.ts makeRequest: one upstream GET; the promise it returns.
makeRequest(S, cacheKey, id) ==
  LET p == Len(S.promises) + 1
      rec == [dom |-> cacheKey, id |-> id, req |-> "wait",
              vid |-> NoSrc, cred |-> NoSrc,
              st |-> "pending", val |-> NoData,
              gcr |-> "", ttl |-> 0,
              createdAt |-> 0, settledAt |-> -1, tsettle |-> -1,
              before |-> NoEntry, after |-> NoEntry]
  IN [S |-> [S EXCEPT !.promises = Append(@, rec)], src |-> PromSrc(p)]

(***************************************************************************)
(* History, read off the promises and not off the cache: the last promise  *)
(* of (cacheKey, id) that getCachedOrRequest saw fulfilled (0: none), and  *)
(* whether the value it stored is younger than its ttl.                    *)
(***************************************************************************)
Stored(ps, cacheKey, id) ==
  {q \in DOMAIN ps : /\ ps[q].dom = cacheKey /\ ps[q].id = id
                      /\ ps[q].gcr # "" /\ ps[q].st = "ok"}
LastStored(ps, cacheKey, id) ==
  IF Stored(ps, cacheKey, id) = {} THEN 0
  ELSE CHOOSE q \in Stored(ps, cacheKey, id) :
         \A r \in Stored(ps, cacheKey, id) : ps[r].settledAt <= ps[q].settledAt
Fresh(ps, cacheKey, id, t) ==
  LET q == LastStored(ps, cacheKey, id)
  IN q # 0 /\ t - ps[q].tsettle < ps[q].ttl

\* The record of an invocation of getCachedOrRequest or getMovie in the log.
Invocation(S, cacheKey, id, how, p, v, top) ==
  [cacheKey |-> cacheKey, id |-> id, how |-> how, p |-> p, v |-> v,
   fresh |-> Fresh(S.promises, cacheKey, id, S.now),
   last |-> LastStored(S.promises, cacheKey, id),
   top |-> top, pc |-> IF top THEN "await" ELSE "nested", res |-> NoRes]

\* The state in which requestFn is called at client.ts line 108: the
\* invocation is on record as one that starts a request.
Started(S, cacheKey, id, top) ==
  [S EXCEPT !.log =
     Append(@, Invocation(S, cacheKey, id, "fetch", Len(S.promises) + 1, NoData, top))]

\* client.ts getCachedOrRequest, up to its first suspension point.  R is
\* what requestFn(), called in the state Started(S, cacheKey, id, top),
\* returns; it is used only on the path that calls requestFn.
getCachedOrRequest(S, cacheKey, id, ttl, top, R) ==
  LET cached == S.cache[cacheKey][id]
      pendingKey == PendingKey(cacheKey, id)
      i == Len(S.log) + 1
  IN IF IsCacheValid(cached, S.now)
       THEN [S |-> [S EXCEPT !.log =
                      Append(@, Invocation(S, cacheKey, id, "hit", 0, cached.data, top))],
             src |-> ValSrc(cached.data)]
     ELSE IF HasPending(S.pendingRequests, pendingKey)
       THEN [S |-> [S EXCEPT !.log =
                      Append(@, Invocation(S, cacheKey, id, "join",
                                           S.pendingRequests[pendingKey], NoData, top))],
             src |-> PromSrc(S.pendingRequests[pendingKey])]
     ELSE
       LET p == R.src.p
           S2 == [R.S EXCEPT
                    !.promises[p].gcr = pendingKey,
                    !.promises[p].ttl = ttl,
                    !.promises[p].createdAt = i,
                    !.promises[p].before = cached,
                    !.pendingRequests[pendingKey] = p]
       IN [S |-> S2, src |-> PromSrc(p)]

\* movies.ts getMovieVideos
getMovieVideos(S, movieId) ==
  getCachedOrRequest(S, "movie_videos", movieId, CACHE_TTL_MOVIE_CREDITS, FALSE,
    makeRequest(Started(S, "movie_videos", movieId, FALSE), "movie_videos", movieId))

\* movies.ts getMovieCredits
getMovieCredits(S, movieId) ==
  getCachedOrRequest(S, "movie_credits", movieId, CACHE_TTL_MOVIE_CREDITS, FALSE,
    makeRequest(Started(S, "movie_credits", movieId, FALSE), "movie_credits", movieId))

\* movies.ts getMovie, the closure getMovieData: the detail request, then the
\* videos and credits sub-requests, all started before the first await.
getMovieData(S, movieId, includeCredits) ==
  LET D == makeRequest(S, "movie", movieId)
      p == D.src.p
      V == getMovieVideos(D.S, movieId)
      C == IF includeCredits THEN getMovieCredits(V.S, movieId)
           ELSE [S |-> V.S, src |-> ValSrc(<<0>>)]
  IN [S |-> [C.S EXCEPT !.promises[p].vid = V.src, !.promises[p].cred = C.src],
      src |-> PromSrc(p)]

shouldCache_Always(options) == TRUE

\* movies.ts getMovie line 16
shouldCache(options) == ~options.defined \/ Cardinality(options.keys) = 0

\* movies.ts getMovie
getMovieCall(S, movieId, options, includeCredits) ==
  IF shouldCache(options)
    THEN getCachedOrRequest(S, "movie", movieId, CACHE_TTL_MOVIE, TRUE,
           getMovieData(Started(S, "movie", movieId, TRUE), movieId, includeCredits))
    ELSE LET S1 == [S EXCEPT !.log =
                      Append(@, Invocation(S, "movie", movieId, "direct",
                                           Len(S.promises) + 1, NoData, TRUE))]
         IN getMovieData(S1, movieId, includeCredits)

(***************************************************************************)
(* Settling.  Promise continuations are microtasks: when an upstream       *)
(* response arrives, every continuation it makes runnable (the .then or    *)
(* .catch of getCachedOrRequest, Promise.all in getMovieData, the awaiting *)
(* resolvers) runs before the event loop takes the next event.             *)
(***************************************************************************)
SrcSettled(ps, s) == s.k = "val" \/ (s.k = "prom" /\ ps[s.p].st # "pending")
SrcFailed(ps, s) == s.k = "prom" /\ ps[s.p].st = "err"
\* movies.ts lines 26 and 28: .catch(() => default)
SrcValue(ps, s) ==
  IF s.k = "val" THEN s.v[1]
  ELSE IF ps[s.p].st = "ok" THEN ps[s.p].val[1] ELSE 0

\* A plain request settles with its response; getMovieData settles as its
\* Promise.all does: rejected as soon as the detail request fails, fulfilled
\* once the detail request and both sub-requests are through.
CanSettle(ps, p) ==
  /\ ps[p].st = "pending"
  /\ \/ ps[p].req = "err"
     \/ /\ ps[p].req = "ok"
        /\ ps[p].dom = "movie" =>
             SrcSettled(ps, ps[p].vid) /\ SrcSettled(ps, ps[p].cred)

MovieOutcome_NoCatch(ps, p) ==
  IF ps[p].req = "err" \/ SrcFailed(ps, ps[p].vid) \/ SrcFailed(ps, ps[p].cred)
    THEN [ok |-> FALSE, v |-> NoData]
    ELSE [ok |-> TRUE,
          v |-> <<p, SrcValue(ps, ps[p].vid), SrcValue(ps, ps[p].cred)>>]

\* movies.ts getMovieData lines 20-37: Promise.all over the detail request
\* and the two guarded sub-requests, merged into one entity.
MovieOutcome(ps, p) ==
  IF ps[p].req = "err" THEN [ok |-> FALSE, v |-> NoData]
  ELSE [ok |-> TRUE,
        v |-> <<p, SrcValue(ps, ps[p].vid), SrcValue(ps, ps[p].cred)>>]

\* What requestFn's promise settles with.
Outcome(ps, p) ==
  IF ps[p].dom = "movie" THEN MovieOutcome(ps, p)
  ELSE IF ps[p].req = "err" THEN [ok |-> FALSE, v |-> NoData]
  ELSE [ok |-> TRUE, v |-> <<p>>]

OnFulfilled_CompleteOnly(S, p, data) ==
  LET r == S.promises[p]
  IN IF \E k \in DOMAIN data : data[k] = 0
     THEN [S EXCEPT !.pendingRequests[r.gcr] = 0]
     ELSE [S EXCEPT !.cache[r.dom][r.id] = [data |-> data, timestamp |-> S.now, ttl |-> r.ttl],
                    !.pendingRequests[r.gcr] = 0]

\* client.ts lines 109-115: the .then of getCachedOrRequest.
OnFulfilled(S, p, data) ==
  LET r == S.promises[p]
  IN [S EXCEPT !.cache[r.dom][r.id] = [data |-> data, timestamp |-> S.now, ttl |-> r.ttl],
               !.pendingRequests[r.gcr] = 0]

OnRejected_KeepPending(S, p) == S

OnRejected_CacheError(S, p) ==
  LET r == S.promises[p]
  IN [S EXCEPT !.cache[r.dom][r.id] = [data |-> NoData, timestamp |-> S.now, ttl |-> r.ttl],
               !.pendingRequests[r.gcr] = 0]

\* client.ts lines 116-119: the .catch of getCachedOrRequest.
OnRejected(S, p) == [S EXCEPT !.pendingRequests[S.promises[p].gcr] = 0]

\* Promise p settles; when getCachedOrRequest made it, its .then or .catch
\* runs.  settledAt, tsettle and after are history.
SettleOne(S, p) ==
  LET o == Outcome(S.promises, p)
      r == S.promises[p]
      S1 == IF r.gcr = "" THEN S
            ELSE IF o.ok THEN OnFulfilled(S, p, o.v) ELSE OnRejected(S, p)
  IN [S1 EXCEPT
        !.promises[p].st = IF o.ok THEN "ok" ELSE "err",
        !.promises[p].val = o.v,
        !.promises[p].settledAt = Len(S.log),
        !.promises[p].tsettle = IF o.ok /\ r.gcr # "" THEN S.now ELSE -1,
        !.promises[p].after = IF r.gcr # "" THEN S1.cache[r.dom][r.id] ELSE NoEntry]

RECURSIVE SettleAll(_, _)
SettleAll(S, p) ==
  IF p > Len(S.promises) THEN S
  ELSE SettleAll(IF CanSettle(S.promises, p) THEN SettleOne(S, p) ELSE S, p + 1)

\* The plain requests first, then the getMovieData promises waiting on them.
Settled(S) == SettleAll(SettleAll(S, 1), 1)

\* An awaiting resolver resumes with the value or the error.
Resume(ps, e) ==
  IF e.pc # "await" THEN e
  ELSE IF e.how = "hit"
    THEN [e EXCEPT !.pc = "done", !.res = [ok |-> TRUE, v |-> e.v, p |-> 0]]
  ELSE IF ps[e.p].st # "pending"
    THEN [e EXCEPT !.pc = "done",
                   !.res = [ok |-> ps[e.p].st = "ok", v |-> ps[e.p].val, p |-> e.p]]
  ELSE e

ResumeAll(S) == [S EXCEPT !.log = [i \in DOMAIN @ |-> Resume(S.promises, @[i])]]

(***************************************************************************)
(* Initial state: empty caches, nothing in flight.                         *)
(***************************************************************************)
InitCache ==
  /\ now = 0
  /\ cache = [k \in CacheKeys |-> [id \in MovieIds |-> NoEntry]]
  /\ pendingRequests = [k \in PendingKeys |-> 0]
  /\ promises = <<>>
  /\ log = <<>>

(***************************************************************************)
(* Actions.                                                                *)
(***************************************************************************)
\* The getMovie calls made so far.
NumCalls == Cardinality({i \in DOMAIN log : log[i].top})

\* A resolver calls getMovie(movieId, options, includeCredits).
getMovie(movieId, options, includeCredits) ==
  /\ NumCalls < MaxCalls
  /\ LET R == getMovieCall(StateOf(cache, pendingRequests, promises, log, now),
                           movieId, options, includeCredits)
         S1 == ResumeAll(R.S)
     IN /\ Len(S1.promises) <= MaxPromises
        /\ cache' = S1.cache
        /\ pendingRequests' = S1.pendingRequests
        /\ promises' = S1.promises
        /\ log' = S1.log
  /\ UNCHANGED <<now, listVars, suggestVars, moreVars>>

\* The upstream answers the request of promise p, with a body or an error.
UpstreamRespond(p, ok) ==
  /\ p \in DOMAIN promises
  /\ promises[p].req = "wait"
  /\ LET S0 == StateOf(cache, pendingRequests, promises, log, now)
         S1 == ResumeAll(Settled([S0 EXCEPT !.promises[p].req =
                                    IF ok THEN "ok" ELSE "err"]))
     IN /\ cache' = S1.cache
        /\ pendingRequests' = S1.pendingRequests
        /\ promises' = S1.promises
        /\ log' = S1.log
  /\ UNCHANGED <<now, listVars, suggestVars, moreVars>>

\* Time passes.
Tick ==
  /\ now < MaxTime
  /\ now' = now + 1
  /\ UNCHANGED <<coordVars, listVars, suggestVars, moreVars>>

NextCache ==
  \/ \E m \in MovieIds, o \in OptionValues, inc \in BOOLEAN :
       getMovie(m, o, inc)
  \/ \E p \in 1..MaxPromises, ok \in BOOLEAN : UpstreamRespond(p, ok)
  \/ Tick

(***************************************************************************)
(* The methods that keep a cache of their own: getGenres (genresCache) and *)
(* getPageMetadata (pageMetadataCache).  listCalls holds their invocations *)
(* in order; an invocation that is "await" has its upstream request out.   *)
(***************************************************************************)
NoPageData == [totalPages |-> 0, firstPageResults |-> <<>>]
NoPageEntry == [data |-> NoPageData, timestamp |-> -1, ttl |-> 0]

\* The endpoints getRandomMovie and getRandomMovieFromSource page through.
Endpoints == {"/discover/movie", "/movie/popular"}

\* movies.ts lines 179 and 363, for the default request parameters.
PageMetadataKey(endpoint) ==
  IF endpoint = "/discover/movie" THEN "page_metadata_discover_{}"
  ELSE "page_metadata_" \o endpoint \o "_{}"

PageMetadataKeys == {PageMetadataKey(e) : e \in Endpoints}

\* A response without total_pages.
NoTotalPages == -1

\* client.ts getTotalPages: 0 and undefined are falsy.
getTotalPages(total_pages) ==
  LET n == IF total_pages = 0 \/ total_pages = NoTotalPages
             THEN MAX_PAGES ELSE total_pages
  IN IF n < MAX_PAGES THEN n ELSE MAX_PAGES

InitLists ==
  /\ genresCache = NoEntry
  /\ pageMetadataCache = [k \in PageMetadataKeys |-> NoPageEntry]
  /\ listCalls = <<>>

ListCall(method, key, hit, data, page) ==
  [method |-> method, key |-> key, pc |-> IF hit THEN "done" ELSE "await",
   hit |-> hit, data |-> data, page |-> page]

\* movies.ts getGenres, up to its await.
getGenres ==
  /\ Len(listCalls) < MaxListCalls
  /\ listCalls' = Append(listCalls,
       IF IsCacheValid(genresCache, now)
         THEN ListCall("getGenres", "genres", TRUE, genresCache.data, NoPageData)
         ELSE ListCall("getGenres", "genres", FALSE, NoData, NoPageData))
  /\ UNCHANGED <<now, coordVars, suggestVars, moreVars, genresCache, pageMetadataCache>>

\* movies.ts getGenres, from the response on.
getGenresResponse(i, ok) ==
  /\ i \in DOMAIN listCalls
  /\ listCalls[i].method = "getGenres"
  /\ listCalls[i].pc = "await"
  /\ IF ok
       THEN /\ genresCache' = [data |-> <<i>>, timestamp |-> now, ttl |-> CACHE_TTL_GENRES]
            /\ listCalls' = [listCalls EXCEPT ![i].pc = "done", ![i].data = <<i>>]
       ELSE /\ genresCache' = genresCache
            /\ listCalls' = [listCalls EXCEPT ![i].pc = "failed"]
  /\ UNCHANGED <<now, coordVars, suggestVars, moreVars, pageMetadataCache>>

\* movies.ts getPageMetadata, up to its await.
getPageMetadata(endpoint) ==
  /\ Len(listCalls) < MaxListCalls
  /\ LET cacheKey == PageMetadataKey(endpoint)
         cached == pageMetadataCache[cacheKey]
     IN listCalls' = Append(listCalls,
          IF IsCacheValid(cached, now)
            THEN ListCall("getPageMetadata", cacheKey, TRUE, NoData, cached.data)
            ELSE ListCall("getPageMetadata", cacheKey, FALSE, NoData, NoPageData))
  /\ UNCHANGED <<now, coordVars, suggestVars, moreVars, genresCache, pageMetadataCache>>

\* movies.ts getPageMetadata, from the response on.
getPageMetadataResponse(i, ok, total_pages, results) ==
  /\ i \in DOMAIN listCalls
  /\ listCalls[i].method = "getPageMetadata"
  /\ listCalls[i].pc = "await"
  /\ IF ok
       THEN LET metadata == [totalPages |-> getTotalPages(total_pages),
                             firstPageResults |-> results]
            IN /\ pageMetadataCache' = [pageMetadataCache EXCEPT
                    ![listCalls[i].key] =
                      [data |-> metadata, timestamp |-> now,
                       ttl |-> CACHE_TTL_PAGE_METADATA]]
               /\ listCalls' = [listCalls EXCEPT ![i].pc = "done", ![i].page = metadata]
       ELSE /\ pageMetadataCache' = pageMetadataCache
            /\ listCalls' = [listCalls EXCEPT ![i].pc = "failed"]
  /\ UNCHANGED <<now, coordVars, suggestVars, moreVars, genresCache>>

NextLists ==
  \/ getGenres
  \/ \E i \in 1..MaxListCalls, ok \in BOOLEAN : getGenresResponse(i, ok)
  \/ \E e \in Endpoints : getPageMetadata(e)
  \/ \E i \in 1..MaxListCalls, ok \in BOOLEAN, tp \in TotalPagesValues :
       \E r \in {<<>>, <<i>>} : getPageMetadataResponse(i, ok, tp, r)
  \/ Tick

(***************************************************************************)
(* suggestMovie's progressive fallback (utils/movieHelpers.ts and the      *)
(* suggestMovie resolver).  A list field of the filters is absent          *)
(* (undefined) or a list; mood and era are strings, "" when not given.     *)
(***************************************************************************)
Absent == [def |-> FALSE, v |-> <<>>]
List(v) == [def |-> TRUE, v |-> v]

NoFilters ==
  [genres |-> Absent, yearRange |-> Absent, actors |-> Absent, cast |-> Absent,
   crew |-> Absent, mood |-> "", era |-> "", keywords |-> Absent]

NoParams ==
  [genres |-> <<>>, yearRange |-> <<>>, actors |-> <<>>, crew |-> <<>>,
   keywords |-> <<>>]

\* constants/index.ts MOOD_TO_KEYWORDS (three of its rows; others: none)
MOOD_TO_KEYWORDS(mood) ==
  IF mood = "fantasy" THEN <<156024>>
  ELSE IF mood = "intense" THEN <<207317, 9715>>
  ELSE <<>>

\* constants/index.ts getEraYearRange (two of its rows; others: null)
getEraYearRange(eraId) ==
  IF eraId = "90s" THEN <<1990, 1999>>
  ELSE IF eraId = "2010-2019" THEN <<2010, 2019>>
  ELSE <<>>

ActorsOf_CastFirst(f) == IF f.cast.def THEN f.cast ELSE f.actors

\* filters.actors || filters.cast: an array, even an empty one, is truthy.
ActorsOf(f) == IF f.actors.def THEN f.actors ELSE f.cast

buildDiscoverParams_EraFirst(f, useSingle) ==
  LET actors == ActorsOf(f)
      moodKeywords == MOOD_TO_KEYWORDS(f.mood)
      k1 == IF f.mood # "" /\ Len(moodKeywords) > 0
              THEN (IF useSingle THEN <<moodKeywords[1]>> ELSE moodKeywords)
              ELSE <<>>
  IN [genres |-> IF f.genres.def /\ Len(f.genres.v) > 0
                   THEN (IF useSingle THEN <<f.genres.v[1]>> ELSE f.genres.v)
                   ELSE <<>>,
      yearRange |-> IF f.era # "" /\ getEraYearRange(f.era) # <<>>
                      THEN getEraYearRange(f.era)
                    ELSE IF f.yearRange.def /\ Len(f.yearRange.v) = 2
                      THEN f.yearRange.v
                    ELSE <<>>,
      actors |-> IF actors.def /\ Len(actors.v) > 0
                   THEN (IF useSingle THEN <<actors.v[1]>> ELSE actors.v)
                   ELSE <<>>,
      crew |-> IF f.crew.def /\ Len(f.crew.v) > 0
                 THEN (IF useSingle THEN <<f.crew.v[1]>> ELSE f.crew.v)
                 ELSE <<>>,
      keywords |-> IF f.keywords.def /\ Len(f.keywords.v) > 0
                     THEN k1 \o (IF useSingle THEN <<f.keywords.v[1]>> ELSE f.keywords.v)
                     ELSE k1]

\* utils/movieHelpers.ts buildDiscoverParams.  The keys of the object it
\* returns are always inserted in the same order, so two results have the
\* same JSON text exactly when they are equal as records.
buildDiscoverParams(f, useSingle) ==
  LET actors == ActorsOf(f)
      moodKeywords == MOOD_TO_KEYWORDS(f.mood)
      k1 == IF f.mood # "" /\ Len(moodKeywords) > 0
              THEN (IF useSingle THEN <<moodKeywords[1]>> ELSE moodKeywords)
              ELSE <<>>
  IN [genres |-> IF f.genres.def /\ Len(f.genres.v) > 0
                   THEN (IF useSingle THEN <<f.genres.v[1]>> ELSE f.genres.v)
                   ELSE <<>>,
      yearRange |-> IF f.yearRange.def /\ Len(f.yearRange.v) = 2
                      THEN f.yearRange.v
                    ELSE IF f.era # "" THEN getEraYearRange(f.era)
                    ELSE <<>>,
      actors |-> IF actors.def /\ Len(actors.v) > 0
                   THEN (IF useSingle THEN <<actors.v[1]>> ELSE actors.v)
                   ELSE <<>>,
      crew |-> IF f.crew.def /\ Len(f.crew.v) > 0
                 THEN (IF useSingle THEN <<f.crew.v[1]>> ELSE f.crew.v)
                 ELSE <<>>,
      keywords |-> IF f.keywords.def /\ Len(f.keywords.v) > 0
                     THEN k1 \o (IF useSingle THEN <<f.keywords.v[1]>> ELSE f.keywords.v)
                     ELSE k1]

\* movieHelpers.ts lines 167-172
hasGenres(f) == f.genres.def /\ Len(f.genres.v) > 0
hasActors(f) == ActorsOf(f).def /\ Len(ActorsOf(f).v) > 0
hasCrew(f) == f.crew.def /\ Len(f.crew.v) > 0
hasMood(f) == f.mood # ""
hasEra(f) == f.era # ""
hasYearRange(f) == f.yearRange.def /\ Len(f.yearRange.v) = 2

\* movieHelpers.ts lines 164-204: the variants pushed, before the filter.
PushedParams(f) ==
  <<buildDiscoverParams(f, FALSE)>>
  \o (IF hasMood(f)
        THEN <<buildDiscoverParams([f EXCEPT !.mood = ""], FALSE)>> ELSE <<>>)
  \o (IF hasCrew(f) /\ hasActors(f)
        THEN <<buildDiscoverParams([f EXCEPT !.crew = Absent], FALSE)>> ELSE <<>>)
  \o (IF hasActors(f)
        THEN <<buildDiscoverParams([f EXCEPT !.actors = Absent, !.cast = Absent], FALSE)>>
        ELSE <<>>)
  \o (IF hasGenres(f) /\ Len(f.genres.v) > 1
        THEN <<buildDiscoverParams([f EXCEPT !.genres = List(<<f.genres.v[1]>>)], FALSE)>>
        ELSE <<>>)
  \o (IF hasEra(f)
        THEN <<buildDiscoverParams([f EXCEPT !.era = ""], FALSE)>> ELSE <<>>)
  \o (IF hasYearRange(f)
        THEN <<buildDiscoverParams([f EXCEPT !.yearRange = Absent], FALSE)>> ELSE <<>>)
  \o (IF hasGenres(f)
        THEN <<buildDiscoverParams([NoFilters EXCEPT !.genres = f.genres], FALSE)>>
        ELSE <<>>)
  \o (IF hasYearRange(f)
        THEN <<buildDiscoverParams([NoFilters EXCEPT !.yearRange = f.yearRange], FALSE)>>
      ELSE IF hasEra(f)
        THEN <<buildDiscoverParams([NoFilters EXCEPT !.era = f.era], FALSE)>>
      ELSE <<>>)

\* movieHelpers.ts lines 207-209: keep the first occurrence of each variant.
RECURSIVE Unique(_, _)
Unique(ps, k) ==
  IF k > Len(ps) THEN <<>>
  ELSE (IF \E j \in 1..(k - 1) : ps[j] = ps[k] THEN <<>> ELSE <<ps[k]>>)
         \o Unique(ps, k + 1)

buildProgressiveFallbackParams_NoDedup(f) == PushedParams(f)

\* utils/movieHelpers.ts buildProgressiveFallbackParams
buildProgressiveFallbackParams(f) == Unique(PushedParams(f), 1)

\* The filters suggestMovie can build from a preferences input.
RECURSIVE Prefix(_, _)
Prefix(sq, n) == IF n = 0 THEN <<>> ELSE Prefix(sq, n - 1) \o <<sq[n]>>
GenreLists == {Absent} \cup {List(Prefix(<<28, 12, 16>>, n)) : n \in 1..MaxGenres}
YearRanges == {Absent, List(<<1990, 1999>>), List(<<2015, 2020>>)}
FilterValues ==
  [genres : GenreLists, yearRange : YearRanges,
   actors : {Absent, List(<<>>), List(<<500>>)}, cast : {Absent},
   crew : {Absent, List(<<600>>)}, mood : {"", "fantasy", "intense", "unlisted"},
   era : {"", "90s", "unlisted"}, keywords : {Absent, List(<<700>>)}]

\* The release years of the movies of the catalog; a movie is its year.
Years == {1995, 2005, 2017}

\* The upstream honours primary_release_date.gte / .lte (client.ts
\* buildDiscoverParams lines 166-171).
InYearRange(year, yr) ==
  IF Len(yr) = 2 THEN yr[1] <= year /\ year <= yr[2] ELSE TRUE

InitSuggestIdle ==
  /\ filters = NoFilters
  /\ fallbackParams = <<>>
  /\ idx = 0
  /\ tmdbMovies = <<>>
  /\ issued = <<>>
  /\ selectedMovie = 0
  /\ spc = "idle"

SuggestStarts ==
  /\ filters \in FilterValues
  /\ fallbackParams = <<>>
  /\ idx = 0
  /\ tmdbMovies = <<>>
  /\ issued = <<>>
  /\ selectedMovie = 0
  /\ spc = "start"

\* suggestMovie lines 152-153
suggestMovieBuild ==
  /\ spc = "start"
  /\ fallbackParams' = buildProgressiveFallbackParams(filters)
  /\ idx' = 1
  /\ spc' = "loop"
  /\ UNCHANGED <<filters, tmdbMovies, issued, selectedMovie>>
  /\ UNCHANGED <<now, coordVars, listVars, moreVars>>

\* suggestMovie lines 155-156: the next discover call goes out.
suggestMovieDiscover ==
  /\ spc = "loop"
  /\ idx <= Len(fallbackParams)
  /\ issued' = Append(issued, fallbackParams[idx])
  /\ spc' = "await"
  /\ UNCHANGED <<filters, fallbackParams, idx, tmdbMovies, selectedMovie>>
  /\ UNCHANGED <<now, coordVars, listVars, moreVars>>

suggestMovieResults_NoBreak(results) ==
  /\ spc = "await"
  /\ \A k \in 1..Len(results) : InYearRange(results[k], fallbackParams[idx].yearRange)
  /\ tmdbMovies' = results
  /\ idx' = idx + 1 /\ spc' = "loop"
  /\ UNCHANGED <<filters, fallbackParams, issued, selectedMovie>>
  /\ UNCHANGED <<now, coordVars, listVars, moreVars>>

\* suggestMovie lines 156-159: the discover call returns `results`.
suggestMovieResults(results) ==
  /\ spc = "await"
  /\ \A k \in 1..Len(results) : InYearRange(results[k], fallbackParams[idx].yearRange)
  /\ tmdbMovies' = results
  /\ IF Len(results) > 0
       THEN idx' = idx /\ spc' = "found"
       ELSE idx' = idx + 1 /\ spc' = "loop"
  /\ UNCHANGED <<filters, fallbackParams, issued, selectedMovie>>
  /\ UNCHANGED <<now, coordVars, listVars, moreVars>>

\* suggestMovie lines 156 and 174-176: the discover call fails and the
\* resolver rethrows the error.
suggestMovieDiscoverFails ==
  /\ spc = "await"
  /\ spc' = "failed"
  /\ UNCHANGED <<filters, fallbackParams, idx, tmdbMovies, issued, selectedMovie>>
  /\ UNCHANGED <<now, coordVars, listVars, moreVars>>

\* suggestMovie lines 162-169: after the loop.
suggestMovieFinish ==
  /\ \/ spc = "found"
     \/ spc = "loop" /\ idx > Len(fallbackParams)
  /\ IF Len(tmdbMovies) = 0
       THEN spc' = "error" /\ selectedMovie' = selectedMovie
       ELSE /\ spc' = "done"
            /\ \E k \in 1..Len(tmdbMovies) : selectedMovie' = tmdbMovies[k]
  /\ UNCHANGED <<filters, fallbackParams, idx, tmdbMovies, issued>>
  /\ UNCHANGED <<now, coordVars, listVars, moreVars>>

NextSuggest ==
  \/ suggestMovieBuild
  \/ suggestMovieDiscover
  \/ \E r \in {<<>>} \cup {<<y>> : y \in Years} : suggestMovieResults(r)
  \/ suggestMovieDiscoverFails
  \/ suggestMovieFinish

(***************************************************************************)
(* shuffleMovie, for arguments the caller supplied (hasAnyParams): one     *)
(* pass of its loop, without collection analysis and collection filters.   *)
(* A number or string argument is absent (undefined) or a value.           *)
(***************************************************************************)
NoNumber == [def |-> FALSE, v |-> 0]
Number(n) == [def |-> TRUE, v |-> n]
NoString == [def |-> FALSE, v |-> ""]
String(str) == [def |-> TRUE, v |-> str]

\* JavaScript truthiness: an array is truthy, 0 and "" are not.
TruthyList(x) == x.def
TruthyNumber(x) == x.def /\ x.v # 0
TruthyString(x) == x.def /\ x.v # ""

NoShuffleArgs ==
  [genres |-> Absent, yearRange |-> Absent, cast |-> Absent, crew |-> Absent,
   minVoteAverage |-> NoNumber, minVoteCount |-> NoNumber,
   runtimeRange |-> Absent, originalLanguage |-> NoString,
   watchProviders |-> NoString, excludeGenres |-> Absent,
   excludeCast |-> Absent, excludeCrew |-> Absent,
   popularityRange |-> Absent, popularityLevel |-> NoString,
   originCountries |-> Absent, keywordIds |-> Absent]

\* The cast and crew arguments explored.
CastValues == {Absent, List(<<500, 501>>)}
CrewValues == {Absent, List(<<600>>)}

\* The arguments explored; the fields not listed here are not supplied.
ShuffleArgsValues ==
  {[NoShuffleArgs EXCEPT !.genres = g, !.yearRange = y, !.cast = c, !.crew = w,
                         !.minVoteAverage = a, !.minVoteCount = n,
                         !.runtimeRange = r, !.originalLanguage = l,
                         !.popularityLevel = p, !.keywordIds = k] :
     g \in {Absent, List(<<28>>), List(<<28, 12>>)},
     y \in {Absent, List(<<1990, 1999>>)},
     c \in CastValues,
     w \in CrewValues,
     a \in {NoNumber, Number(0), Number(7)},
     n \in {NoNumber, Number(0)},
     r \in {Absent, List(<<90, 120>>)},
     l \in {NoString, String(""), String("en")},
     p \in {NoString, String("HIGH")},
     k \in {Absent, List(<<700>>)}}

\* shuffleMovie lines 1051-1072
hasAnyParams(args) ==
  \/ TruthyList(args.genres) \/ TruthyList(args.yearRange)
  \/ TruthyList(args.cast) \/ TruthyList(args.crew)
  \/ TruthyNumber(args.minVoteAverage) \/ TruthyNumber(args.minVoteCount)
  \/ TruthyList(args.runtimeRange) \/ TruthyString(args.originalLanguage)
  \/ TruthyString(args.watchProviders) \/ TruthyList(args.excludeGenres)
  \/ TruthyList(args.excludeCast) \/ TruthyList(args.excludeCrew)
  \/ TruthyList(args.popularityRange) \/ TruthyString(args.popularityLevel)
  \/ TruthyList(args.originCountries) \/ TruthyList(args.keywordIds)

hasStrictFilters_Never(args) == FALSE

\* shuffleMovie lines 1243-1263, without the collection terms
hasStrictFilters(args) ==
  \/ TruthyList(args.yearRange) \/ TruthyList(args.runtimeRange)
  \/ TruthyNumber(args.minVoteAverage) \/ TruthyNumber(args.minVoteCount)
  \/ TruthyString(args.originalLanguage) \/ TruthyList(args.popularityRange)
  \/ TruthyString(args.popularityLevel) \/ TruthyString(args.watchProviders)
  \/ TruthyList(args.excludeGenres) \/ TruthyList(args.excludeCast)
  \/ TruthyList(args.excludeCrew) \/ TruthyList(args.originCountries)
  \/ TruthyList(args.keywordIds)

\* utils/movieHelpers.ts shouldTryFallback
shouldTryFallback(f) ==
  \/ f.genres.def /\ Len(f.genres.v) > 1
  \/ ActorsOf(f).def /\ Len(ActorsOf(f).v) > 1
  \/ f.crew.def /\ Len(f.crew.v) > 1

\* shuffleMovie lines 1139-1145 with convertGraphQLOptionsToTMDBOptions
\* lines 21-26: the thresholds go into the options when they are not
\* undefined, the language when it is truthy.
shuffleOptions(args) ==
  [voteAverageGte |-> args.minVoteAverage, voteCountGte |-> args.minVoteCount,
   withOriginalLanguage |->
     IF TruthyString(args.originalLanguage) THEN args.originalLanguage ELSE NoString]

\* What a filter keeps of a list of person ids: some of them, in order.
RECURSIVE Keep(_, _, _)
Keep(sq, I, k) ==
  IF k > Len(sq) THEN <<>>
  ELSE (IF k \in I THEN <<sq[k]>> ELSE <<>>) \o Keep(sq, I, k + 1)
Kept(sq) == {Keep(sq, I, 1) : I \in SUBSET (1..Len(sq))}

\* shuffleMovie lines 1193-1198: the filtered ids, undefined for no ids.
FilteredIds(x) ==
  IF x.def /\ Len(x.v) > 0 THEN {List(q) : q \in Kept(x.v)} ELSE {Absent}

FilteredValues == UNION {FilteredIds(x) : x \in CastValues \cup CrewValues}

\* A discover call: the parameters and the options it is made with.
DiscoverCall(useSingle, f, args) ==
  [useSingle |-> useSingle, params |-> buildDiscoverParams(f, useSingle),
   options |-> shuffleOptions(args)]

\* The movies a discover call returns.
ShuffleResults == {<<>>, <<1>>, <<1, 2>>}

InitShuffleIdle ==
  /\ shArgs = NoShuffleArgs
  /\ shFilters = NoFilters
  /\ shCalls = <<>>
  /\ shMovies = <<>>
  /\ shSelected = 0
  /\ shpc = "idle"

ShuffleStarts ==
  /\ shArgs \in {x \in ShuffleArgsValues : hasAnyParams(x)}
  /\ shFilters = NoFilters
  /\ shCalls = <<>>
  /\ shMovies = <<>>
  /\ shSelected = 0
  /\ shpc = "start"

\* The variables shuffleMovie leaves alone.
ShuffleFrame ==
  UNCHANGED <<now, coordVars, listVars, suggestVars>> /\ MoreUnchangedExcept("shuffle")

\* shuffleMovie lines 1181-1225: the ids are filtered, discoverFilters is
\* built and the first discover call goes out.
shuffleMovieDiscover(actorIds, crewIds) ==
  /\ shpc = "start"
  /\ actorIds \in FilteredIds(shArgs.cast)
  /\ crewIds \in FilteredIds(shArgs.crew)
  /\ LET f == [NoFilters EXCEPT !.genres = shArgs.genres,
                                !.yearRange = shArgs.yearRange,
                                !.cast = actorIds, !.actors = actorIds,
                                !.crew = crewIds, !.keywords = shArgs.keywordIds]
     IN /\ shFilters' = f
        /\ shCalls' = <<DiscoverCall(FALSE, f, shArgs)>>
  /\ shpc' = "await1"
  /\ UNCHANGED <<shArgs, shMovies, shSelected>>
  /\ ShuffleFrame

\* shuffleMovie lines 1222-1308: a discover call returns `results`; after
\* the first one the single-value call may go out, otherwise the resolver
\* returns null or picks a movie.
shuffleMovieResults(results) ==
  /\ shpc \in {"await1", "await2"}
  /\ shMovies' = results
  /\ IF /\ shpc = "await1" /\ Len(results) = 0
        /\ shouldTryFallback(shFilters) /\ ~hasStrictFilters(shArgs)
       THEN /\ shCalls' = Append(shCalls, DiscoverCall(TRUE, shFilters, shArgs))
            /\ shpc' = "await2"
            /\ shSelected' = shSelected
       ELSE /\ shCalls' = shCalls
            /\ IF Len(results) = 0
                 THEN shpc' = "null" /\ shSelected' = shSelected
                 ELSE /\ shpc' = "done"
                      /\ \E k \in 1..Len(results) : shSelected' = results[k]
  /\ UNCHANGED <<shArgs, shFilters>>
  /\ ShuffleFrame

\* shuffleMovie lines 1314-1316: a discover call fails.
shuffleMovieDiscoverFails ==
  /\ shpc \in {"await1", "await2"}
  /\ shpc' = "failed"
  /\ UNCHANGED <<shArgs, shFilters, shCalls, shMovies, shSelected>>
  /\ ShuffleFrame

NextShuffle ==
  \/ \E a \in FilteredValues, c \in FilteredValues : shuffleMovieDiscover(a, c)
  \/ \E r \in ShuffleResults : shuffleMovieResults(r)
  \/ shuffleMovieDiscoverFails

(***************************************************************************)
(* suggestMovie (resolvers, later version): the random popular movie it    *)
(* falls back to when no strategy found a movie.  A movie is its id.       *)
(***************************************************************************)
PopularIds == 1..NumPopularIds

maxRetries == 20
maxFallbackRetries == 10

InitPopularIdle ==
  /\ historySet = {}
  /\ selectedMovieIdsSet = {}
  /\ randomMovie = 0
  /\ retries = 0
  /\ fallbackRetries = 0
  /\ sampled = 0
  /\ ppc = "idle"

\* suggestMovie lines 561-563 and 665-668: at least one selected id.
PopularStarts ==
  /\ historySet \in SUBSET PopularIds
  /\ selectedMovieIdsSet \in (SUBSET PopularIds) \ {{}}
  /\ randomMovie = 0
  /\ retries = 0
  /\ fallbackRetries = 0
  /\ sampled = 0
  /\ ppc = "retry"

PopularFrame ==
  UNCHANGED <<now, coordVars, listVars, suggestVars>> /\ MoreUnchangedExcept("popular")

AcceptsFirst_HistoryOnly(movieId) == movieId \notin historySet

\* suggestMovie line 678
AcceptsFirst(movieId) ==
  movieId \notin historySet /\ movieId \notin selectedMovieIdsSet

\* suggestMovie line 697
AcceptsSecond(movieId) == movieId \notin selectedMovieIdsSet

\* suggestMovie lines 670-682: one pass of the first loop, with the
\* sampling call returning `candidate`.
suggestMovieRetry(candidate) ==
  /\ ppc = "retry"
  /\ sampled' = sampled + 1
  /\ retries' = retries + 1
  /\ randomMovie' = IF AcceptsFirst(candidate) THEN candidate ELSE 0
  /\ ppc' = IF randomMovie' # 0 THEN "done"
            ELSE IF retries' < maxRetries THEN "retry"
            ELSE "fallbackRetry"
  /\ UNCHANGED <<historySet, selectedMovieIdsSet, fallbackRetries>>
  /\ PopularFrame

\* suggestMovie lines 689-701: one pass of the second loop.
suggestMovieFallbackRetry(candidate) ==
  /\ ppc = "fallbackRetry"
  /\ sampled' = sampled + 1
  /\ fallbackRetries' = fallbackRetries + 1
  /\ randomMovie' = IF AcceptsSecond(candidate) THEN candidate ELSE 0
  /\ ppc' = IF randomMovie' # 0 THEN "done"
            ELSE IF fallbackRetries' < maxFallbackRetries THEN "fallbackRetry"
            ELSE "lastResort"
  /\ UNCHANGED <<historySet, selectedMovieIdsSet, retries>>
  /\ PopularFrame

\* suggestMovie lines 704-710: any movie.
suggestMovieLastResort(candidate) ==
  /\ ppc = "lastResort"
  /\ sampled' = sampled + 1
  /\ randomMovie' = candidate
  /\ ppc' = "done"
  /\ UNCHANGED <<historySet, selectedMovieIdsSet, retries, fallbackRetries>>
  /\ PopularFrame

\* suggestMovie lines 740-742: a sampling call fails.
suggestMovieSampleFails ==
  /\ ppc \in {"retry", "fallbackRetry", "lastResort"}
  /\ ppc' = "failed"
  /\ UNCHANGED <<historySet, selectedMovieIdsSet, randomMovie, retries,
                 fallbackRetries, sampled>>
  /\ PopularFrame

NextPopular ==
  \/ \E c \in PopularIds : suggestMovieRetry(c)
  \/ \E c \in PopularIds : suggestMovieFallbackRetry(c)
  \/ \E c \in PopularIds : suggestMovieLastResort(c)
  \/ suggestMovieSampleFails

(***************************************************************************)
(* getRandomMovie (endpoint /discover/movie) and getRandomMovieFromSource  *)
(* (endpoint /movie/popular), with getPageMetadata as they call it.        *)
(* Math.random() returns a fraction <<numerator, denominator>> in [0, 1).  *)
(***************************************************************************)
RandomValues == {<<0, 1>>, <<1, 2>>, <<999, 1000>>}

\* Math.floor(Math.random() * n)
FloorOfRandomTimes(u, n) == (u[1] * n) \div u[2]

\* client.ts getRandomPage
getRandomPage(totalPages, u) == FloorOfRandomTimes(u, totalPages) + 1

\* client.ts pickRandomItem, for a non-empty array
pickRandomItem(items, u) == items[FloorOfRandomTimes(u, Len(items)) + 1]

\* The items the upstream can return for a page: none, or two of the page.
PageResults(page) == {<<>>, <<10 * page + 1, 10 * page + 2>>}

RandomCall(cacheKey) ==
  [key |-> cacheKey, pc |-> "start", upstream |-> 0, hit |-> FALSE, reported |-> 0,
   totalPages |-> 0, firstPageResults |-> <<>>, randomPage |-> 0,
   movies |-> <<>>, result |-> 0, error |-> ""]

AfterPageMetadata_AlwaysFetch(call, metadata, u, w) ==
  LET c == [call EXCEPT !.totalPages = metadata.totalPages,
                        !.firstPageResults = metadata.firstPageResults]
  IN IF metadata.totalPages = 0 \/ Len(metadata.firstPageResults) = 0
       THEN [c EXCEPT !.pc = "failed", !.error = "No movies found"]
     ELSE [c EXCEPT !.pc = "awaitPage",
                    !.randomPage = getRandomPage(metadata.totalPages, u),
                    !.upstream = @ + 1]

\* movies.ts lines 375-403 (and 191-218): from the page metadata to the
\* request of the random page; u and w are the values Math.random() returns
\* to getRandomPage and to pickRandomItem.
AfterPageMetadata(call, metadata, u, w) ==
  LET c == [call EXCEPT !.totalPages = metadata.totalPages,
                        !.firstPageResults = metadata.firstPageResults]
  IN IF metadata.totalPages = 0 \/ Len(metadata.firstPageResults) = 0
       THEN [c EXCEPT !.pc = "failed", !.error = "No movies found"]
     ELSE IF metadata.totalPages = 1
       THEN [c EXCEPT !.pc = "done",
                      !.result = pickRandomItem(metadata.firstPageResults, w)]
     ELSE LET randomPage == getRandomPage(metadata.totalPages, u)
          IN IF randomPage = 1
               THEN [c EXCEPT !.pc = "done", !.randomPage = 1,
                              !.result = pickRandomItem(metadata.firstPageResults, w)]
               ELSE [c EXCEPT !.pc = "awaitPage", !.randomPage = randomPage,
                              !.upstream = @ + 1]

InitRandomIdle ==
  /\ randomCalls = <<>>
  /\ reportedPages = [k \in PageMetadataKeys |-> 0]

RandomFrame ==
  /\ UNCHANGED <<coordVars, suggestVars, genresCache, listCalls>>
  /\ MoreUnchangedExcept("random")

\* getRandomMovie / getRandomMovieFromSource up to the first upstream
\* request: getPageMetadata answers from its cache or requests page 1.
getRandomMovieFromSource(endpoint, u, w) ==
  /\ Len(randomCalls) < MaxRandomCalls
  /\ LET cacheKey == PageMetadataKey(endpoint)
         cached == pageMetadataCache[cacheKey]
         call == RandomCall(cacheKey)
     IN randomCalls' = Append(randomCalls,
          IF IsCacheValid(cached, now)
            THEN AfterPageMetadata([call EXCEPT !.hit = TRUE,
                                                !.reported = reportedPages[cacheKey]],
                                   cached.data, u, w)
            ELSE [call EXCEPT !.pc = "awaitMeta", !.upstream = 1])
  /\ UNCHANGED <<now, pageMetadataCache, reportedPages>>
  /\ RandomFrame

\* getPageMetadata lines 314-335 and on: the response to the page-1
\* request of invocation i.
getRandomMoviePageOne(i, ok, total_pages, results, u, w) ==
  /\ i \in DOMAIN randomCalls
  /\ randomCalls[i].pc = "awaitMeta"
  /\ results \in PageResults(1)
  /\ IF ok
       THEN LET metadata == [totalPages |-> getTotalPages(total_pages),
                             firstPageResults |-> results]
            IN /\ pageMetadataCache' = [pageMetadataCache EXCEPT
                    ![randomCalls[i].key] =
                      [data |-> metadata, timestamp |-> now,
                       ttl |-> CACHE_TTL_PAGE_METADATA]]
               /\ reportedPages' = [reportedPages EXCEPT ![randomCalls[i].key] = total_pages]
               /\ randomCalls' = [randomCalls EXCEPT
                    ![i] = AfterPageMetadata([@ EXCEPT !.reported = total_pages],
                                             metadata, u, w)]
       ELSE /\ randomCalls' = [randomCalls EXCEPT
                 ![i].pc = "failed", ![i].error = "Failed to get page metadata"]
            /\ UNCHANGED <<pageMetadataCache, reportedPages>>
  /\ UNCHANGED now
  /\ RandomFrame

\* movies.ts lines 394-411 (and 210-226): the response to the request of
\* the random page of invocation i.
getRandomMovieRandomPage(i, ok, nonEmpty, w) ==
  /\ i \in DOMAIN randomCalls
  /\ randomCalls[i].pc = "awaitPage"
  /\ LET c == randomCalls[i]
         movies == IF nonEmpty
                     THEN <<10 * c.randomPage + 1, 10 * c.randomPage + 2>>
                     ELSE <<>>
     IN randomCalls' = [randomCalls EXCEPT ![i] =
          IF ~ok THEN [c EXCEPT !.pc = "failed", !.error = "Failed to get random movie"]
          ELSE IF Len(movies) = 0
            THEN [c EXCEPT !.pc = "done",
                           !.result = pickRandomItem(c.firstPageResults, w)]
          ELSE [c EXCEPT !.pc = "done", !.movies = movies,
                         !.result = pickRandomItem(movies, w)]]
  /\ UNCHANGED <<now, pageMetadataCache, reportedPages>>
  /\ RandomFrame

\* Time passes while getRandomMovie calls are made.
RandomTick ==
  /\ now < MaxTime
  /\ now' = now + 1
  /\ UNCHANGED <<pageMetadataCache, randomVars>>
  /\ RandomFrame

NextRandom ==
  \/ \E e \in Endpoints, u \in RandomValues, w \in RandomValues :
       getRandomMovieFromSource(e, u, w)
  \/ \E i \in 1..MaxRandomCalls, ok \in BOOLEAN,
        tp \in TotalPagesValues \cup {NoTotalPages}, r \in PageResults(1),
        u \in RandomValues, w \in RandomValues :
       getRandomMoviePageOne(i, ok, tp, r, u, w)
  \/ \E i \in 1..MaxRandomCalls, ok \in BOOLEAN, ne \in BOOLEAN, w \in RandomValues :
       getRandomMovieRandomPage(i, ok, ne, w)
  \/ RandomTick

(***************************************************************************)
(* getRandomActorFromSource (movies.ts 422-471).  The movie that           *)
(* getRandomMovieFromSource returns and the cast that getMovieCredits      *)
(* gives are inputs.                                                       *)
(***************************************************************************)
ActorMovieIds == 1..NumActorMovies

NoActor == [kind |-> "pending", actor |-> 0, movie |-> 0]

InitActorIdle ==
  /\ maxRetries_actor = 0
  /\ attempts = 0
  /\ seenMovieIds = {}
  /\ actorMovieId = 0
  /\ sampledMovies = <<>>
  /\ creditsFetched = <<>>
  /\ actorResult = NoActor
  /\ apc = "idle"

\* while (attempts < maxRetries) ... throw (lines 431, 470), evaluated with
\* `a` attempts made: the next getRandomMovieFromSource call or the error.
LoopOrThrow(a) ==
  IF a < maxRetries_actor
    THEN apc' = "awaitMovie" /\ actorResult' = actorResult
    ELSE apc' = "failed" /\
         actorResult' = [kind |-> "No actors found", actor |-> 0, movie |-> 0]

\* getRandomActorFromSource is called with maxRetries between 0 and
\* MaxActorRetries and has run up to its first await.
ActorStarts ==
  /\ maxRetries_actor \in 0..MaxActorRetries
  /\ attempts = 0
  /\ seenMovieIds = {}
  /\ actorMovieId = 0
  /\ sampledMovies = <<>>
  /\ creditsFetched = <<>>
  /\ IF 0 < maxRetries_actor
       THEN apc = "awaitMovie" /\ actorResult = NoActor
       ELSE apc = "failed" /\
            actorResult = [kind |-> "No actors found", actor |-> 0, movie |-> 0]

ActorFrame ==
  /\ UNCHANGED <<now, coordVars, listVars, suggestVars, maxRetries_actor>>
  /\ MoreUnchangedExcept("actor")

seenMovieIds_has_Never(m) == FALSE

\* seenMovieIds.has(movieId), line 442
seenMovieIds_has(m) == m \in seenMovieIds

\* Lines 433-449: getRandomMovieFromSource returns movie m.
getRandomActorMovie(m) ==
  /\ apc = "awaitMovie"
  /\ sampledMovies' = Append(sampledMovies, m)
  /\ actorMovieId' = m
  /\ IF seenMovieIds_has(m)
       THEN /\ attempts' = attempts + 1
            /\ LoopOrThrow(attempts + 1)
            /\ UNCHANGED <<seenMovieIds, creditsFetched>>
       ELSE /\ seenMovieIds' = seenMovieIds \cup {m}
            /\ creditsFetched' = Append(creditsFetched,
                 [movie |-> m, settled |-> FALSE, ok |-> FALSE, cast |-> <<>>])
            /\ apc' = "awaitCredits"
            /\ UNCHANGED <<attempts, actorResult>>
  /\ ActorFrame

\* Line 433: getRandomMovieFromSource throws; nothing catches it.
getRandomActorMovieFails ==
  /\ apc = "awaitMovie"
  /\ apc' = "failed"
  /\ actorResult' = [kind |-> "No movies found", actor |-> 0, movie |-> 0]
  /\ UNCHANGED <<attempts, seenMovieIds, actorMovieId, sampledMovies, creditsFetched>>
  /\ ActorFrame

\* Lines 449-468: getMovieCredits settles, with the cast `cast` when ok;
\* w is the value Math.random() returns to pickRandomItem.
getRandomActorCredits(ok, nonEmpty, w) ==
  /\ apc = "awaitCredits"
  /\ LET cast == IF ok /\ nonEmpty THEN <<100 * actorMovieId + 1, 100 * actorMovieId + 2>>
                 ELSE <<>>
     IN /\ creditsFetched' = [creditsFetched EXCEPT ![Len(creditsFetched)] =
             [movie |-> actorMovieId, settled |-> TRUE, ok |-> ok, cast |-> cast]]
        /\ IF ok /\ Len(cast) > 0
             THEN /\ apc' = "done"
                  /\ actorResult' = [kind |-> "actor",
                                     actor |-> pickRandomItem(cast, w),
                                     movie |-> actorMovieId]
                  /\ UNCHANGED attempts
             ELSE /\ attempts' = attempts + 1
                  /\ LoopOrThrow(attempts + 1)
  /\ UNCHANGED <<seenMovieIds, actorMovieId, sampledMovies>>
  /\ ActorFrame

NextActor ==
  \/ \E m \in ActorMovieIds : getRandomActorMovie(m)
  \/ getRandomActorMovieFails
  \/ \E ok \in BOOLEAN, ne \in BOOLEAN, w \in RandomValues :
       getRandomActorCredits(ok, ne, w)

(***************************************************************************)
(* filterToActorsOnly, filterToCrewOnly and filterPeopleByRole             *)
(* (movies.ts 804-887) with getPersonRoleInfo (755-774).                   *)
(***************************************************************************)
PersonIds == 1..NumPersons
batchSize == 10

\* What getPersonCombinedCredits gives for a person: it rejects, or resolves
\* with credits that have a cast or not and a directing/writing job or not.
CreditsValues ==
  {[ok |-> FALSE, cast |-> FALSE, crew |-> FALSE]}
    \cup [ok : {TRUE}, cast : BOOLEAN, crew : BOOLEAN]

\* getPersonRoleInfo, for credits that were received
getPersonRoleInfo(credits) == [isActor |-> credits.cast, isCrew |-> credits.crew]

PeopleValues == UNION {[1..n -> PersonIds] : n \in 0..MaxPeople}

InitFilterIdle ==
  /\ roleType = "both"
  /\ people = <<>>
  /\ personCredits = [id \in PersonIds |-> [ok |-> FALSE, cast |-> FALSE, crew |-> FALSE]]
  /\ batchStart = 0
  /\ filtered = <<>>
  /\ fpc = "idle"

\* A filter method is about to be called: filterToActorsOnly is
\* filterPeopleByRole's "actor" on ids, filterToCrewOnly its "crew".
FilterStarts ==
  /\ roleType \in {"actor", "crew", "both"}
  /\ people \in PeopleValues
  /\ personCredits \in [PersonIds -> CreditsValues]
  /\ batchStart = 0
  /\ filtered = <<>>
  /\ fpc = "called"

FilterFrame ==
  /\ UNCHANGED <<now, coordVars, listVars, suggestVars, roleType, people, personCredits>>
  /\ MoreUnchangedExcept("filter")

\* The role test of the forEach callbacks (lines 816, 843, 879-882)
KeepsRole(roleInfo) ==
  \/ roleType = "actor" /\ roleInfo.isActor
  \/ roleType = "crew" /\ roleInfo.isCrew

\* The members of a batch that are kept, in order.
RECURSIVE KeptOfBatch(_)
KeptOfBatch(batch) ==
  IF batch = <<>> THEN <<>>
  ELSE (IF KeepsRole(getPersonRoleInfo(personCredits[Head(batch)]))
          THEN <<Head(batch)>> ELSE <<>>) \o KeptOfBatch(Tail(batch))

\* people.slice(i, i + batchSize)
Slice(i) ==
  SubSeq(people, i + 1, IF i + batchSize < Len(people) THEN i + batchSize ELSE Len(people))

\* Lines 805, 864-866 and the first pass of the loop up to its await.
filterPeopleByRole ==
  /\ fpc = "called"
  /\ IF roleType = "both" \/ Len(people) = 0
       THEN /\ fpc' = "done"
            /\ filtered' = (IF roleType = "both" THEN people ELSE <<>>)
       ELSE /\ fpc' = "awaitBatch"
            /\ UNCHANGED filtered
  /\ UNCHANGED batchStart
  /\ FilterFrame

\* Promise.all over the batch settles (lines 813-821, 840-848, 874-884):
\* it rejects when a lookup of the batch rejects, and nothing catches that.
filterBatchSettles ==
  /\ fpc = "awaitBatch"
  /\ LET batch == Slice(batchStart)
     IN IF \E k \in DOMAIN batch : ~personCredits[batch[k]].ok
          THEN /\ fpc' = "failed"
               /\ UNCHANGED <<filtered, batchStart>>
          ELSE /\ filtered' = filtered \o KeptOfBatch(batch)
               /\ batchStart' = batchStart + batchSize
               /\ fpc' = IF batchStart + batchSize < Len(people)
                           THEN "awaitBatch" ELSE "done"
  /\ FilterFrame

NextFilter ==
  \/ filterPeopleByRole
  \/ filterBatchSettles

(***************************************************************************)
(* calculateCollectionInsights (collectionInsights.ts 43-286).  A Map is   *)
(* the sequence of its values in insertion order; null is <<>>; an         *)
(* average is <<sum, number of values>>.                                   *)
(***************************************************************************)
InsightMovieIds == 1..NumInsightMovies
insightsBatchSize == 10
Null == <<>>

\* transformTMDBMovie's result for a movie with every field, and for one
\* with no release date, runtime 0 and vote average 0; crew members carry
\* whether their job or department is one of those counted (lines 178-185).
FullMovie(id) ==
  [id |-> id, genres |-> <<2, 1>>, cast |-> <<7, 3>>,
   crew |-> <<[id |-> 5, counted |-> TRUE], [id |-> 6, counted |-> FALSE]>>,
   year |-> 1990 + id, runtime |-> 100, voteAverage |-> 7]
BareMovie(id) ==
  [id |-> id, genres |-> <<1>>, cast |-> <<3>>,
   crew |-> <<[id |-> 4, counted |-> TRUE], [id |-> 5, counted |-> TRUE]>>,
   year |-> 0, runtime |-> 0, voteAverage |-> 0]

\* What the upstream gives for a movie: getMovie rejects or resolves, and
\* getMovieKeywords rejects or resolves with a keyword list.
TmdbDataValues(id) ==
  [movieOk : BOOLEAN, movie : {FullMovie(id), BareMovie(id)},
   keywordsOk : BOOLEAN, keywords : {<<9, 8>>}]
    \cup [movieOk : {TRUE}, movie : {FullMovie(id)},
          keywordsOk : {TRUE}, keywords : {<<>>, <<8>>}]

emptyInsights ==
  [totalMovies |-> 0, uniqueGenres |-> 0, moviesByGenre |-> <<>>,
   uniqueKeywords |-> 0, topKeywords |-> <<>>, uniqueActors |-> 0,
   topActors |-> <<>>, uniqueCrew |-> 0, topCrew |-> <<>>,
   yearRange |-> Null, averageRuntime |-> Null, averageVoteAverage |-> Null]

\* Lines 86-89 with their .catch: the movie, or null.
movieResult_NoCatch(id) ==
  IF tmdbData[id].movieOk
    THEN [kind |-> "movie", movie |-> tmdbData[id].movie]
    ELSE [kind |-> "rejected", movie |-> tmdbData[id].movie]

movieResult(id) ==
  IF tmdbData[id].movieOk
    THEN [kind |-> "movie", movie |-> tmdbData[id].movie]
    ELSE [kind |-> "null", movie |-> tmdbData[id].movie]

\* Lines 90-93 with their .catch: the keywords, or [].
keywordResult(id) ==
  IF tmdbData[id].keywordsOk THEN tmdbData[id].keywords ELSE <<>>

\* incrementMapCount, lines 128-139
incrementMapCount(map, id) ==
  IF \E k \in DOMAIN map : map[k].id = id
    THEN [k \in DOMAIN map |->
            IF map[k].id = id THEN [map[k] EXCEPT !.count = @ + 1] ELSE map[k]]
    ELSE Append(map, [id |-> id, count |-> 1])

RECURSIVE CountEach(_, _)
CountEach(map, ids) ==
  IF ids = <<>> THEN map
  ELSE CountEach(incrementMapCount(map, Head(ids)), Tail(ids))

\* movies.forEach with one of the four forEach of lines 143-193; `lists`
\* holds, per movie, the ids that forEach goes through.
RECURSIVE CountAll(_, _)
CountAll(map, lists) ==
  IF lists = <<>> THEN map
  ELSE CountAll(CountEach(map, Head(lists)), Tail(lists))

\* The crew members counted, lines 175-193.
RECURSIVE CountedCrew(_)
CountedCrew(crew) ==
  IF crew = <<>> THEN <<>>
  ELSE (IF Head(crew).counted THEN <<Head(crew).id>> ELSE <<>>)
         \o CountedCrew(Tail(crew))

\* The keywords of a movie of `movies`, lines 153-161.
KeywordsOf(movie, kw) == IF kw[movie.id].def THEN kw[movie.id].v ELSE <<>>

\* Array.prototype.sort with (a, b) => b.count - a.count: stable.
RECURSIVE InsertByCount(_, _)
InsertByCount(sorted, x) ==
  IF sorted = <<>> THEN <<x>>
  ELSE IF Head(sorted).count >= x.count
    THEN <<Head(sorted)>> \o InsertByCount(Tail(sorted), x)
  ELSE <<x>> \o sorted

RECURSIVE SortByCount(_)
SortByCount(map) ==
  IF map = <<>> THEN <<>>
  ELSE InsertByCount(SortByCount(SubSeq(map, 1, Len(map) - 1)), map[Len(map)])

\* slice(0, n)
SliceTop(sq, n) == SubSeq(sq, 1, IF Len(sq) < n THEN Len(sq) ELSE n)

\* The values of a field that pass the test of lines 196-211, in order.
RECURSIVE Pushed(_, _)
Pushed(ms, field) ==
  IF ms = <<>> THEN <<>>
  ELSE LET m == Head(ms)
           pushes == CASE field = "year" -> m.year # 0
                       [] field = "runtime" -> m.runtime # 0
                       [] field = "voteAverage" -> TRUE
       IN (IF pushes THEN <<m[field]>> ELSE <<>>) \o Pushed(Tail(ms), field)

RECURSIVE SumOf(_)
SumOf(ns) == IF ns = <<>> THEN 0 ELSE Head(ns) + SumOf(Tail(ns))

\* Lines 252-259
Average(ns) == IF Len(ns) > 0 THEN <<SumOf(ns), Len(ns)>> ELSE Null

\* Lines 262-265
YearRange(years) ==
  IF Len(years) > 0
    THEN <<CHOOSE y \in {years[k] : k \in DOMAIN years} :
             \A k \in DOMAIN years : y <= years[k],
           CHOOSE y \in {years[k] : k \in DOMAIN years} :
             \A k \in DOMAIN years : y >= years[k]>>
    ELSE Null

\* Lines 108-285: the result for the movies fetched and their keywords.
Insights(ms, kw) ==
  IF Len(ms) = 0 THEN emptyInsights
  ELSE LET genreMap == CountAll(<<>>, [k \in DOMAIN ms |-> ms[k].genres])
           keywordCountMap ==
             CountAll(<<>>, [k \in DOMAIN ms |-> KeywordsOf(ms[k], kw)])
           actorMap == CountAll(<<>>, [k \in DOMAIN ms |-> ms[k].cast])
           crewMap == CountAll(<<>>, [k \in DOMAIN ms |-> CountedCrew(ms[k].crew)])
       IN [totalMovies |-> Len(ms),
           uniqueGenres |-> Len(genreMap),
           moviesByGenre |-> SortByCount(genreMap),
           uniqueKeywords |-> Len(keywordCountMap),
           topKeywords |-> SliceTop(SortByCount(keywordCountMap), 20),
           uniqueActors |-> Len(actorMap),
           topActors |-> SliceTop(SortByCount(actorMap), 10),
           uniqueCrew |-> Len(crewMap),
           topCrew |-> SliceTop(SortByCount(crewMap), 10),
           yearRange |-> YearRange(Pushed(ms, "year")),
           averageRuntime |-> Average(Pushed(ms, "runtime")),
           averageVoteAverage |-> Average(Pushed(ms, "voteAverage"))]

NoKeywords == [id \in InsightMovieIds |-> [def |-> FALSE, v |-> <<>>]]

InitInsightsIdle ==
  /\ collectionMovies = <<>>
  /\ tmdbData = [id \in InsightMovieIds |->
       [movieOk |-> FALSE, movie |-> FullMovie(id),
        keywordsOk |-> FALSE, keywords |-> <<9, 8>>]]
  /\ insightMovies = <<>>
  /\ keywordsByMovieId = NoKeywords
  /\ batchIndex = 0
  /\ insightsRuns = <<>>
  /\ ipc = "idle"

\* The collections: sequences of distinct tmdbIds.
CollectionValues ==
  {c \in UNION {[1..n -> InsightMovieIds] : n \in 0..NumInsightMovies} :
     \A j, k \in DOMAIN c : j # k => c[j] # c[k]}

\* A collection and the upstream's data; no run has been made.
InsightsStarts ==
  /\ collectionMovies \in CollectionValues
  /\ tmdbData \in [InsightMovieIds -> UNION {TmdbDataValues(id) : id \in InsightMovieIds}]
  /\ \A id \in InsightMovieIds : tmdbData[id] \in TmdbDataValues(id)
  /\ insightMovies = <<>>
  /\ keywordsByMovieId = NoKeywords
  /\ batchIndex = 0
  /\ insightsRuns = <<>>
  /\ ipc = "idle"

InsightsFrame ==
  /\ UNCHANGED <<now, coordVars, listVars, suggestVars, collectionMovies, tmdbData>>
  /\ MoreUnchangedExcept("insights")

\* Lines 48-103: a run, from the call to the first await of the batch loop.
calculateCollectionInsights ==
  /\ ipc \in {"idle", "done"}
  /\ Len(insightsRuns) < MaxInsightRuns
  /\ insightMovies' = <<>>
  /\ keywordsByMovieId' = NoKeywords
  /\ batchIndex' = 0
  /\ IF Len(collectionMovies) = 0
       THEN /\ insightsRuns' = Append(insightsRuns, emptyInsights)
            /\ ipc' = "done"
       ELSE /\ ipc' = "awaitBatch"
            /\ UNCHANGED insightsRuns
  /\ InsightsFrame

\* The movies of a batch that were fetched, in order (lines 96-104).
RECURSIVE BatchMovies(_)
BatchMovies(batch) ==
  IF batch = <<>> THEN <<>>
  ELSE (IF movieResult(Head(batch)).kind = "movie"
          THEN <<movieResult(Head(batch)).movie>> ELSE <<>>)
         \o BatchMovies(Tail(batch))

\* Lines 103-104 and on: Promise.all(batchPromises) settles; after the
\* last batch the result is computed.
insightsBatchSettles ==
  /\ ipc = "awaitBatch"
  /\ LET last == IF batchIndex + insightsBatchSize < Len(collectionMovies)
                   THEN batchIndex + insightsBatchSize ELSE Len(collectionMovies)
         batch == SubSeq(collectionMovies, batchIndex + 1, last)
         fetched == insightMovies \o BatchMovies(batch)
         kw == [id \in InsightMovieIds |->
                  IF \E k \in DOMAIN batch :
                       batch[k] = id /\ movieResult(id).kind = "movie"
                    THEN [def |-> TRUE, v |-> keywordResult(id)]
                    ELSE keywordsByMovieId[id]]
     IN IF \E k \in DOMAIN batch : movieResult(batch[k]).kind = "rejected"
          THEN /\ ipc' = "failed"
               /\ UNCHANGED <<insightMovies, keywordsByMovieId, batchIndex, insightsRuns>>
          ELSE /\ insightMovies' = fetched
               /\ keywordsByMovieId' = kw
               /\ batchIndex' = batchIndex + insightsBatchSize
               /\ IF batchIndex + insightsBatchSize < Len(collectionMovies)
                    THEN ipc' = "awaitBatch" /\ UNCHANGED insightsRuns
                    ELSE /\ ipc' = "done"
                         /\ insightsRuns' = Append(insightsRuns, Insights(fetched, kw))
  /\ InsightsFrame

NextInsights ==
  \/ calculateCollectionInsights
  \/ insightsBatchSettles

(***************************************************************************)
(* buildDiscoverParams (part_017 92-144) called on its own.                *)
(***************************************************************************)
BuildFilterValues ==
  [genres : {Absent, List(<<>>), List(<<28>>), List(<<28, 12>>)},
   yearRange : {Absent},
   actors : {Absent, List(<<>>), List(<<500, 501>>)},
   cast : {Absent, List(<<510, 511>>)},
   crew : {Absent, List(<<600, 601>>)},
   mood : {"", "fantasy", "intense", "unlisted"},
   era : {""},
   keywords : {Absent, List(<<>>), List(<<700, 701>>)}]

InitBuildIdle ==
  /\ buildArgs = [filters |-> NoFilters, useSingle |-> FALSE]
  /\ builtParams = NoParams
  /\ bpc = "idle"
  /\ shouldTry = <<>>

\* buildDiscoverParams is about to be called.
BuildStarts ==
  /\ buildArgs \in [filters : BuildFilterValues, useSingle : BOOLEAN]
  /\ builtParams = NoParams
  /\ bpc = "called"
  /\ shouldTry = <<>>

\* The call returns.
buildDiscoverParamsReturns ==
  /\ bpc = "called"
  /\ builtParams' = buildDiscoverParams(buildArgs.filters, buildArgs.useSingle)
  /\ bpc' = "returned"
  /\ UNCHANGED <<now, coordVars, listVars, suggestVars, buildArgs, shouldTry>>
  /\ MoreUnchangedExcept("build")

\* shouldTryFallback is called on the filters and returns.
shouldTryFallbackReturns ==
  /\ bpc # "idle"
  /\ shouldTry = <<>>
  /\ shouldTry' = <<shouldTryFallback(buildArgs.filters)>>
  /\ UNCHANGED <<now, coordVars, listVars, suggestVars, buildArgs, builtParams, bpc>>
  /\ MoreUnchangedExcept("build")

NextBuild ==
  \/ buildDiscoverParamsReturns
  \/ shouldTryFallbackReturns

(***************************************************************************)
(* extractActorsFromMovies and extractCrewFromMovies (movies.ts 573-700).  *)
(* A movie is its position in movieIds.                                    *)
(***************************************************************************)
extractLimit == 20
extractBatchSize == 5

InitExtractIdle ==
  /\ limitedMovieIds = <<>>
  /\ creditsCalls = <<>>
  /\ epc = "idle"

\* The method is about to be called with n movie ids.
ExtractStarts ==
  /\ \E n \in 0..MaxExtractMovies :
       limitedMovieIds =
         [k \in 1..(IF n < extractLimit THEN n ELSE extractLimit) |-> k]
  /\ creditsCalls = [k \in DOMAIN limitedMovieIds |-> "notStarted"]
  /\ epc = "called"

ExtractFrame ==
  /\ UNCHANGED <<now, coordVars, listVars, suggestVars, limitedMovieIds>>
  /\ MoreUnchangedExcept("extract")

\* The batch a position belongs to: limitedMovieIds.slice(i * batchSize,
\* (i + 1) * batchSize) holds the positions of batch i.
BatchOf(k) == (k - 1) \div extractBatchSize

\* The positions whose getMovieCredits call is made when the mapper of
\* Array.from has built the promises of every batch (lines 588-608): the
\* mapper runs for all batches before Promise.allSettled is awaited.
StartedAtCall == DOMAIN limitedMovieIds

\* Lines 582-608: from the call to the await of Promise.allSettled.
extractActorsFromMovies ==
  /\ epc = "called"
  /\ IF Len(limitedMovieIds) = 0
       THEN epc' = "done" /\ UNCHANGED creditsCalls
       ELSE /\ epc' = "awaitAll"
            /\ creditsCalls' = [k \in DOMAIN creditsCalls |->
                 IF k \in StartedAtCall THEN "running" ELSE creditsCalls[k]]
  /\ ExtractFrame

\* The getMovieCredits call of position k settles (its failure is caught,
\* lines 598-603); when every call has settled the result is built.
extractCreditsSettles(k, ok) ==
  /\ epc = "awaitAll"
  /\ k \in DOMAIN creditsCalls
  /\ creditsCalls[k] = "running"
  /\ LET after == [creditsCalls EXCEPT ![k] = IF ok THEN "credits" ELSE "null"]
     IN /\ creditsCalls' = after
        /\ epc' = IF \A j \in DOMAIN after : after[j] \in {"credits", "null"}
                    THEN "done" ELSE "awaitAll"
  /\ ExtractFrame

NextExtract ==
  \/ extractActorsFromMovies
  \/ \E k \in 1..(MaxExtractMovies + 1), ok \in BOOLEAN : extractCreditsSettles(k, ok)

(***************************************************************************)
(* suggestMovieRound (part_006 745-977): the fill loops that run when the  *)
(* combinations gave between one and three movies (lines 919-977).         *)
(***************************************************************************)
FillIds == 1..NumFillIds
maxFillRetries == 20
roundSize == 4

InitRoundIdle ==
  /\ roundHistorySet = {}
  /\ validMovies = <<>>
  /\ fillRetries = 0
  /\ roundMovieId = 0
  /\ roundSampled = 0
  /\ rpc = "idle"

\* Promise.all(moviePromises) is about to resolve with the movies of the
\* combinations that gave one.
RoundStarts ==
  /\ roundHistorySet \in {{}, {3}, {3, 4}}
  /\ validMovies \in {<<1>>, <<1, 2>>, <<1, 2, 5>>, <<1, 2, 5, 4>>}
  /\ fillRetries = 0
  /\ roundMovieId = 0
  /\ roundSampled = 0
  /\ rpc = "awaitCombinations"

RoundFrame ==
  /\ UNCHANGED <<now, coordVars, listVars, suggestVars, roundHistorySet>>
  /\ MoreUnchangedExcept("round")

InValidMovies(id, vm) == \E k \in DOMAIN vm : vm[k] = id

\* The test of the first fill loop (line 928) and, when it fails, of the
\* second (line 954), for the list vm and r retries: where the resolver
\* goes on.
FirstLoopTest(vm, r) ==
  IF Len(vm) < roundSize /\ r < maxFillRetries THEN "fill1Sample"
  ELSE IF Len(vm) < roundSize THEN "fill2Sample"
  ELSE "done"

\* The test of the second fill loop (line 954).
SecondLoopTest(vm) == IF Len(vm) < roundSize THEN "fill2Sample" ELSE "done"

\* Lines 836-839 and 919-928: the combinations have settled.
suggestMovieRound ==
  /\ rpc = "awaitCombinations"
  /\ rpc' = FirstLoopTest(validMovies, 0)
  /\ UNCHANGED <<validMovies, fillRetries, roundMovieId, roundSampled>>
  /\ RoundFrame

\* Lines 930-941: the first loop's getRandomMovieFromSource call returns id.
fillSample(id) ==
  /\ rpc = "fill1Sample"
  /\ roundSampled < MaxRoundSamples
  /\ roundSampled' = roundSampled + 1
  /\ IF id \in roundHistorySet \/ InValidMovies(id, validMovies)
       THEN /\ fillRetries' = fillRetries + 1
            /\ rpc' = FirstLoopTest(validMovies, fillRetries + 1)
            /\ UNCHANGED roundMovieId
       ELSE /\ roundMovieId' = id
            /\ rpc' = "fill1Movie"
            /\ UNCHANGED fillRetries
  /\ UNCHANGED validMovies
  /\ RoundFrame

\* Lines 943-950: the first loop's getMovie call settles; a failure breaks
\* the loop.
fillGetMovie(ok) ==
  /\ rpc = "fill1Movie"
  /\ IF ok
       THEN /\ validMovies' = Append(validMovies, roundMovieId)
            /\ fillRetries' = fillRetries + 1
            /\ rpc' = FirstLoopTest(Append(validMovies, roundMovieId), fillRetries + 1)
       ELSE /\ rpc' = SecondLoopTest(validMovies)
            /\ UNCHANGED <<validMovies, fillRetries>>
  /\ UNCHANGED <<roundMovieId, roundSampled>>
  /\ RoundFrame

\* Lines 930 and 946-949: the first loop's sampling call fails.
fillSampleFails ==
  /\ rpc = "fill1Sample"
  /\ roundSampled < MaxRoundSamples
  /\ roundSampled' = roundSampled + 1
  /\ rpc' = SecondLoopTest(validMovies)
  /\ UNCHANGED <<validMovies, fillRetries, roundMovieId>>
  /\ RoundFrame

\* Lines 956-966: the second loop's getRandomMovieFromSource call returns
\* id; a duplicate goes back to the loop test with `continue`.
refillSample(id) ==
  /\ rpc = "fill2Sample"
  /\ roundSampled < MaxRoundSamples
  /\ roundSampled' = roundSampled + 1
  /\ IF InValidMovies(id, validMovies)
       THEN rpc' = SecondLoopTest(validMovies) /\ UNCHANGED roundMovieId
       ELSE rpc' = "fill2Movie" /\ roundMovieId' = id
  /\ UNCHANGED <<validMovies, fillRetries>>
  /\ RoundFrame

\* Lines 968-974: the second loop's getMovie call settles.
refillGetMovie(ok) ==
  /\ rpc = "fill2Movie"
  /\ IF ok
       THEN /\ validMovies' = Append(validMovies, roundMovieId)
            /\ rpc' = SecondLoopTest(Append(validMovies, roundMovieId))
       ELSE /\ rpc' = "done"
            /\ UNCHANGED validMovies
  /\ UNCHANGED <<fillRetries, roundMovieId, roundSampled>>
  /\ RoundFrame

\* Lines 956 and 971-974: the second loop's sampling call fails.
refillSampleFails ==
  /\ rpc = "fill2Sample"
  /\ roundSampled < MaxRoundSamples
  /\ roundSampled' = roundSampled + 1
  /\ rpc' = "done"
  /\ UNCHANGED <<validMovies, fillRetries, roundMovieId>>
  /\ RoundFrame

NextRound ==
  \/ suggestMovieRound
  \/ \E id \in FillIds : fillSample(id)
  \/ \E ok \in BOOLEAN : fillGetMovie(ok)
  \/ fillSampleFails
  \/ \E id \in FillIds : refillSample(id)
  \/ \E ok \in BOOLEAN : refillGetMovie(ok)
  \/ refillSampleFails

(***************************************************************************)
(* searchMovies, searchKeywords (movies.ts 109-147, 478-515) and           *)
(* searchPeople (part_022 118-156): one searchCache for the three.  Time   *)
(* is counted in units of 5 minutes.                                       *)
(***************************************************************************)
SearchTimeUnit == 5 * 60 * 1000
CACHE_TTL_SEARCH == (5 * 60 * 1000) \div SearchTimeUnit
SearchDomains == {"movie", "person", "keyword"}
SearchQueries == {" X ", "person_x"}
SearchOptions == {"none", "fr"}
NoLimit == 0
SearchLimits == {NoLimit, 25}
cachedResults == 20
maxLimit == 100

\* query.trim().toLowerCase() and query.trim()
Normalize(query) == IF query = " X " THEN "x" ELSE query
Trim(query) == IF query = " X " THEN "X" ELSE query

\* JSON.stringify(options || {}) for no options and for {language: l}
StringifyOptions(options) ==
  IF options = "none" THEN "{}" ELSE "{\"language\":\"" \o options \o "\"}"

\* movies.ts lines 112 and 481, part_022 line 121
SearchCacheKey(domain, query, options) ==
  IF domain = "movie"
    THEN "search_" \o Normalize(query) \o "_" \o StringifyOptions(options)
  ELSE IF domain = "person"
    THEN "search_person_" \o Normalize(query) \o "_" \o StringifyOptions(options)
  ELSE "search_keyword_" \o Normalize(query)

\* The options a method takes: searchKeywords has none.
OptionsOf(domain) == IF domain = "keyword" THEN {"none"} ELSE SearchOptions

SearchKeys ==
  {SearchCacheKey(d, q, o) : d \in SearchDomains, q \in SearchQueries, o \in SearchOptions}

\* The ttl of the entry a method writes (lines 142, 510; part_022 151)
SearchTtl(domain) ==
  IF domain = "keyword" THEN CACHE_TTL_SEARCH * 24 ELSE CACHE_TTL_SEARCH

\* The results of an upstream response with n items for a domain.
UpstreamResults(domain, n) ==
  [k \in 1..n |-> (IF domain = "movie" THEN 1000
                   ELSE IF domain = "person" THEN 2000 ELSE 3000) + k]

\* limit ? results.slice(0, limit) : results
FromCache(results, limit) ==
  IF limit # NoLimit THEN SliceTop(results, limit) ELSE results

\* limit ? results.slice(0, Math.min(limit, 100)) : results
FromUpstream(results, limit) ==
  IF limit # NoLimit
    THEN SliceTop(results, IF limit < maxLimit THEN limit ELSE maxLimit)
    ELSE results

NoSearchEntry ==
  [data |-> <<>>, timestamp |-> -1, ttl |-> 0, domain |-> "", query |-> "",
   options |-> "", results |-> <<>>]

InitSearchIdle ==
  /\ searchNow = 0
  /\ searchCache = [k \in SearchKeys |-> NoSearchEntry]
  /\ searchCalls = <<>>

SearchFrame ==
  /\ UNCHANGED <<now, coordVars, listVars, suggestVars>>
  /\ MoreUnchangedExcept("search")

\* A search method up to its await: answered from the cache, or the
\* upstream request is made.
search(domain, query, limit, options) ==
  /\ Len(searchCalls) < MaxSearchCalls
  /\ options \in OptionsOf(domain)
  /\ LET cacheKey == SearchCacheKey(domain, query, options)
         cached == searchCache[cacheKey]
         call == [domain |-> domain, query |-> query, limit |-> limit,
                  options |-> options, key |-> cacheKey]
     IN searchCalls' = Append(searchCalls,
          IF IsCacheValid(cached, searchNow)
            THEN call @@ [pc |-> "done", hit |-> TRUE, entry |-> cached,
                          result |-> FromCache(cached.data, limit)]
            ELSE call @@ [pc |-> "await", hit |-> FALSE, entry |-> NoSearchEntry,
                          result |-> <<>>])
  /\ UNCHANGED <<searchNow, searchCache>>
  /\ SearchFrame

\* The upstream response to the request of invocation i has n results, or
\* the request fails.
searchResponse(i, ok, n) ==
  /\ i \in DOMAIN searchCalls
  /\ searchCalls[i].pc = "await"
  /\ LET c == searchCalls[i]
         results == UpstreamResults(c.domain, n)
     IN IF ok
          THEN /\ searchCache' = [searchCache EXCEPT ![c.key] =
                    [data |-> SliceTop(results, cachedResults),
                     timestamp |-> searchNow, ttl |-> SearchTtl(c.domain),
                     domain |-> c.domain, query |-> Normalize(c.query),
                     options |-> c.options, results |-> results]]
               /\ searchCalls' = [searchCalls EXCEPT ![i] =
                    [c EXCEPT !.pc = "done", !.result = FromUpstream(results, c.limit)]]
          ELSE /\ searchCalls' = [searchCalls EXCEPT ![i].pc = "failed"]
               /\ UNCHANGED searchCache
  /\ UNCHANGED searchNow
  /\ SearchFrame

\* Time passes.
SearchTick ==
  /\ searchNow < MaxSearchTime
  /\ searchNow' = searchNow + 1
  /\ UNCHANGED <<searchCache, searchCalls>>
  /\ SearchFrame

NextSearch ==
  \/ \E d \in SearchDomains, q \in SearchQueries, l \in SearchLimits, o \in SearchOptions :
       search(d, q, l, o)
  \/ \E i \in 1..MaxSearchCalls, ok \in BOOLEAN, n \in {2, cachedResults + 1} :
       searchResponse(i, ok, n)
  \/ SearchTick

(***************************************************************************)
(* The collection mutations (resolvers/collectionResolvers.ts lines        *)
(* 133-283) and verifyCollectionOwnership (utils/dbHelpers.ts).  The       *)
(* tables are those of the migration add_collections: a collection row     *)
(* has an owner, a collection movie is unique per (collectionId, tmdbId)   *)
(* and is deleted with its collection.                                     *)
(***************************************************************************)
UserIds == 1..NumUsers
CollectionIds == 1..NumCollections
CollectionTmdbIds == {550, 551}

NoCollection == [exists |-> FALSE, userId |-> 0, isPublic |-> FALSE]
NoMutation ==
  [op |-> "none", userId |-> 0, id |-> 0, check |-> "", threw |-> FALSE,
   changed |-> FALSE]

InitCollectionsIdle ==
  /\ dbCollections = [c \in CollectionIds |-> NoCollection]
  /\ dbCollectionMovies = {}
  /\ nextCollectionId = 1
  /\ lastMutation = NoMutation

CollectionsFrame ==
  /\ UNCHANGED <<now, coordVars, listVars, suggestVars>>
  /\ MoreUnchangedExcept("collections")

\* dbHelpers.ts verifyCollectionOwnership: what its promise settles with.
verifyCollectionOwnership(collectionId, userId) ==
  IF ~dbCollections[collectionId].exists THEN "COLLECTION_NOT_FOUND"
  ELSE IF dbCollections[collectionId].userId # userId THEN "COLLECTION_NO_PERMISSION"
  ELSE "ok"

\* What a mutation leaves behind: the resolvers call
\* verifyCollectionOwnership without await (lines 173, 212, 233, 270), so
\* its promise is dropped and the resolver fails only if its own write does.
Mutation(op, userId, id, threw) ==
  [op |-> op, userId |-> userId, id |-> id,
   check |-> verifyCollectionOwnership(id, userId), threw |-> threw,
   changed |-> \/ dbCollections' # dbCollections
               \/ dbCollectionMovies' # dbCollectionMovies]

\* createCollection (lines 133-162).
createCollection(userId, isPublic) ==
  /\ nextCollectionId <= NumCollections
  /\ dbCollections' =
       [dbCollections EXCEPT ![nextCollectionId] =
          [exists |-> TRUE, userId |-> userId, isPublic |-> isPublic]]
  /\ nextCollectionId' = nextCollectionId + 1
  /\ lastMutation' =
       [op |-> "createCollection", userId |-> userId, id |-> nextCollectionId,
        check |-> "", threw |-> FALSE, changed |-> TRUE]
  /\ UNCHANGED dbCollectionMovies
  /\ CollectionsFrame

\* updateCollection (lines 164-201): collection.update fails when no row
\* has the id.
updateCollection(userId, id, isPublic) ==
  /\ dbCollections' =
       IF dbCollections[id].exists
       THEN [dbCollections EXCEPT ![id].isPublic = isPublic]
       ELSE dbCollections
  /\ UNCHANGED <<dbCollectionMovies, nextCollectionId>>
  /\ lastMutation' = Mutation("updateCollection", userId, id, ~dbCollections[id].exists)
  /\ CollectionsFrame

\* deleteCollection (lines 203-222): collection.delete fails when no row
\* has the id; the collection's movies go with it.
deleteCollection(userId, id) ==
  /\ dbCollections' =
       IF dbCollections[id].exists
       THEN [dbCollections EXCEPT ![id] = NoCollection]
       ELSE dbCollections
  /\ dbCollectionMovies' =
       IF dbCollections[id].exists
       THEN {cm \in dbCollectionMovies : cm[1] # id}
       ELSE dbCollectionMovies
  /\ UNCHANGED nextCollectionId
  /\ lastMutation' = Mutation("deleteCollection", userId, id, ~dbCollections[id].exists)
  /\ CollectionsFrame

\* addMovieToCollection (lines 224-259): the existing row is returned, or
\* one is created, which fails when no collection has the id.
addMovieToCollection(userId, collectionId, tmdbId) ==
  /\ dbCollectionMovies' =
       IF dbCollections[collectionId].exists
       THEN dbCollectionMovies \cup {<<collectionId, tmdbId>>}
       ELSE dbCollectionMovies
  /\ UNCHANGED <<dbCollections, nextCollectionId>>
  /\ lastMutation' =
       Mutation("addMovieToCollection", userId, collectionId,
                ~dbCollections[collectionId].exists)
  /\ CollectionsFrame

\* removeMovieFromCollection (lines 261-283): deleteMany never fails.
removeMovieFromCollection(userId, collectionId, tmdbId) ==
  /\ dbCollectionMovies' = dbCollectionMovies \ {<<collectionId, tmdbId>>}
  /\ UNCHANGED <<dbCollections, nextCollectionId>>
  /\ lastMutation' = Mutation("removeMovieFromCollection", userId, collectionId, FALSE)
  /\ CollectionsFrame

NextCollections ==
  \/ \E u \in UserIds, p \in BOOLEAN : createCollection(u, p)
  \/ \E u \in UserIds, c \in CollectionIds, p \in BOOLEAN : updateCollection(u, c, p)
  \/ \E u \in UserIds, c \in CollectionIds : deleteCollection(u, c)
  \/ \E u \in UserIds, c \in CollectionIds, m \in CollectionTmdbIds :
       addMovieToCollection(u, c, m)
  \/ \E u \in UserIds, c \in CollectionIds, m \in CollectionTmdbIds :
       removeMovieFromCollection(u, c, m)

(***************************************************************************)
(* addToSuggestHistory and getSuggestHistory (utils/dbHelpers.ts, lines    *)
(* 146-219 of part_013) for one user.  Each query is one step of the       *)
(* database; the calls of two requests of the same user interleave at the  *)
(* awaits.                                                                 *)
(***************************************************************************)
historyLimit == 10
HistoryCallIds == 1..MaxHistoryCalls
HistoryTmdbIds == {1, 2, historyLimit + 1, historyLimit + 2}
InitialHistorySizes == {0, historyLimit - 1, historyLimit}

IdleHistoryCall ==
  [pc |-> "idle", tmdbId |-> 0, existing |-> 0, count |-> 0, oldestEntries |-> {}]

InitHistoryIdle ==
  /\ historyRows = <<>>
  /\ nextRowId = 1
  /\ historyCalls = [i \in HistoryCallIds |-> IdleHistoryCall]
  /\ recency = <<>>

\* The table as earlier calls left it: n rows, the oldest first.
HistoryStarts ==
  /\ \E n \in InitialHistorySizes :
       /\ historyRows = [k \in 1..n |-> [id |-> k, tmdbId |-> k]]
       /\ nextRowId = n + 1
       /\ recency = [k \in 1..n |-> k]
  /\ historyCalls = [i \in HistoryCallIds |-> IdleHistoryCall]

HistoryFrame ==
  /\ UNCHANGED <<now, coordVars, listVars, suggestVars>>
  /\ MoreUnchangedExcept("history")

RowIds == {historyRows[k].id : k \in DOMAIN historyRows}
RowTmdbIds == {historyRows[k].tmdbId : k \in DOMAIN historyRows}

\* The rows without those that `drop` holds the ids of, in the same order.
RECURSIVE WithoutRows(_, _)
WithoutRows(rows, drop) ==
  IF rows = <<>> THEN <<>>
  ELSE IF rows[1].id \in drop THEN WithoutRows(Tail(rows), drop)
  ELSE <<rows[1]>> \o WithoutRows(Tail(rows), drop)

RECURSIVE WithoutMovie(_, _)
WithoutMovie(sq, m) ==
  IF sq = <<>> THEN <<>>
  ELSE IF sq[1] = m THEN WithoutMovie(Tail(sq), m)
  ELSE <<sq[1]>> \o WithoutMovie(Tail(sq), m)

\* getSuggestHistory (lines 146-162): the tmdbIds of the 10 rows created
\* last, the last first.
getSuggestHistory ==
  LET n == Len(historyRows)
      k == IF n < historyLimit THEN n ELSE historyLimit
  IN [j \in 1..k |-> historyRows[n + 1 - j].tmdbId]

\* addToSuggestHistory up to the answer of findUnique (lines 164-178).
addToSuggestHistory(i, tmdbId) ==
  /\ historyCalls[i].pc = "idle"
  /\ LET found == {k \in DOMAIN historyRows : historyRows[k].tmdbId = tmdbId}
     IN historyCalls' =
          [historyCalls EXCEPT ![i] =
             [@ EXCEPT !.tmdbId = tmdbId,
                       !.existing = IF found = {} THEN 0
                                    ELSE historyRows[CHOOSE k \in found : TRUE].id,
                       !.pc = IF found = {} THEN "create" ELSE "update"]]
  /\ UNCHANGED <<historyRows, nextRowId, recency>>
  /\ HistoryFrame

\* The update of createdAt (lines 180-185); it fails when the row is gone.
historyUpdate(i) ==
  /\ historyCalls[i].pc = "update"
  /\ IF historyCalls[i].existing \in RowIds
     THEN /\ historyRows' =
               WithoutRows(historyRows, {historyCalls[i].existing})
                 \o <<[id |-> historyCalls[i].existing, tmdbId |-> historyCalls[i].tmdbId]>>
          /\ recency' =
               WithoutMovie(recency, historyCalls[i].tmdbId) \o <<historyCalls[i].tmdbId>>
          /\ historyCalls' = [historyCalls EXCEPT ![i].pc = "done"]
     ELSE /\ historyCalls' = [historyCalls EXCEPT ![i].pc = "failed"]
          /\ UNCHANGED <<historyRows, recency>>
  /\ UNCHANGED nextRowId
  /\ HistoryFrame

\* The create (lines 187-193); it fails when a row of the user has the
\* tmdbId by now.
historyCreate(i) ==
  /\ historyCalls[i].pc = "create"
  /\ IF historyCalls[i].tmdbId \in RowTmdbIds
     THEN /\ historyCalls' = [historyCalls EXCEPT ![i].pc = "failed"]
          /\ UNCHANGED <<historyRows, nextRowId, recency>>
     ELSE /\ historyRows' =
               Append(historyRows, [id |-> nextRowId, tmdbId |-> historyCalls[i].tmdbId])
          /\ nextRowId' = nextRowId + 1
          /\ recency' = Append(recency, historyCalls[i].tmdbId)
          /\ historyCalls' = [historyCalls EXCEPT ![i].pc = "count"]
  /\ HistoryFrame

\* The count (lines 195-200).
historyCount(i) ==
  /\ historyCalls[i].pc = "count"
  /\ historyCalls' =
       [historyCalls EXCEPT ![i] =
          [@ EXCEPT !.count = Len(historyRows),
                    !.pc = IF Len(historyRows) > historyLimit THEN "findMany" ELSE "done"]]
  /\ UNCHANGED <<historyRows, nextRowId, recency>>
  /\ HistoryFrame

\* The findMany of the oldest entries (lines 202-208).
historyFindOldest(i) ==
  /\ historyCalls[i].pc = "findMany"
  /\ LET take == historyCalls[i].count - historyLimit
         n == IF take < Len(historyRows) THEN take ELSE Len(historyRows)
     IN historyCalls' =
          [historyCalls EXCEPT ![i] =
             [@ EXCEPT !.oldestEntries = {historyRows[k].id : k \in 1..n},
                       !.pc = "deleteMany"]]
  /\ UNCHANGED <<historyRows, nextRowId, recency>>
  /\ HistoryFrame

\* The deleteMany (lines 210-216).
historyDeleteOldest(i) ==
  /\ historyCalls[i].pc = "deleteMany"
  /\ historyRows' = WithoutRows(historyRows, historyCalls[i].oldestEntries)
  /\ historyCalls' = [historyCalls EXCEPT ![i].pc = "done"]
  /\ UNCHANGED <<nextRowId, recency>>
  /\ HistoryFrame

NextHistory ==
  \/ \E i \in HistoryCallIds, m \in HistoryTmdbIds : addToSuggestHistory(i, m)
  \/ \E i \in HistoryCallIds : historyUpdate(i)
  \/ \E i \in HistoryCallIds : historyCreate(i)
  \/ \E i \in HistoryCallIds : historyCount(i)
  \/ \E i \in HistoryCallIds : historyFindOldest(i)
  \/ \E i \in HistoryCallIds : historyDeleteOldest(i)

(***************************************************************************)
(* filterMoviesByCollections (utils/collectionHelpers.ts lines 96-129).    *)
(* A set argument is null or a Set, which an empty collection makes empty. *)
(***************************************************************************)
FilterMovieIds == 1..NumFilterMovieIds
NullSet == [def |-> FALSE, v |-> {}]
SetValues == {NullSet} \cup {[def |-> TRUE, v |-> s] : s \in SUBSET FilterMovieIds}
MovieLists == UNION {[1..n -> FilterMovieIds] : n \in 0..MaxFilterMovies}
NoFilterArgs ==
  [movieList |-> <<>>, inCollectionIds |-> NullSet, excludeCollectionIds |-> NullSet,
   notInAnyCollection |-> FALSE, allCollectionMovieIds |-> NullSet]

InitCollectionFilterIdle ==
  /\ cfArgs = NoFilterArgs
  /\ cfResult = <<>>
  /\ cfpc = "idle"

CollectionFilterStarts ==
  /\ cfArgs \in [movieList : MovieLists, inCollectionIds : SetValues,
                 excludeCollectionIds : SetValues, notInAnyCollection : BOOLEAN,
                 allCollectionMovieIds : SetValues]
  /\ cfResult = <<>>
  /\ cfpc = "called"

\* The callback of movies.filter (lines 104-127).
KeepsMovie(movieId, a) ==
  IF a.inCollectionIds.def /\ Cardinality(a.inCollectionIds.v) > 0
       /\ movieId \notin a.inCollectionIds.v
  THEN FALSE
  ELSE IF a.excludeCollectionIds.def /\ Cardinality(a.excludeCollectionIds.v) > 0
            /\ movieId \in a.excludeCollectionIds.v
  THEN FALSE
  ELSE IF a.notInAnyCollection /\ a.allCollectionMovieIds.def
            /\ movieId \in a.allCollectionMovieIds.v
  THEN FALSE
  ELSE TRUE

RECURSIVE FilterList(_, _)
FilterList(sq, a) ==
  IF sq = <<>> THEN <<>>
  ELSE IF KeepsMovie(sq[1], a) THEN <<sq[1]>> \o FilterList(Tail(sq), a)
  ELSE FilterList(Tail(sq), a)

filterMoviesByCollections ==
  /\ cfpc = "called"
  /\ cfResult' = FilterList(cfArgs.movieList, cfArgs)
  /\ cfpc' = "returned"
  /\ UNCHANGED cfArgs
  /\ UNCHANGED <<now, coordVars, listVars, suggestVars>>
  /\ MoreUnchangedExcept("collectionFilter")

NextCollectionFilter == filterMoviesByCollections

\* The resolvers and methods of part `g` apart, the other resolvers and
\* methods have not been called.
MoreIdleExcept(g) ==
  /\ IF g = "shuffle" THEN TRUE ELSE InitShuffleIdle
  /\ IF g = "popular" THEN TRUE ELSE InitPopularIdle
  /\ IF g = "random" THEN TRUE ELSE InitRandomIdle
  /\ IF g = "actor" THEN TRUE ELSE InitActorIdle
  /\ IF g = "filter" THEN TRUE ELSE InitFilterIdle
  /\ IF g = "insights" THEN TRUE ELSE InitInsightsIdle
  /\ IF g = "build" THEN TRUE ELSE InitBuildIdle
  /\ IF g = "extract" THEN TRUE ELSE InitExtractIdle
  /\ IF g = "round" THEN TRUE ELSE InitRoundIdle
  /\ IF g = "search" THEN TRUE ELSE InitSearchIdle
  /\ IF g = "collections" THEN TRUE ELSE InitCollectionsIdle
  /\ IF g = "history" THEN TRUE ELSE InitHistoryIdle
  /\ IF g = "collectionFilter" THEN TRUE ELSE InitCollectionFilterIdle

InitMoreIdle == MoreIdleExcept("")

vars == <<now, coordVars, listVars, suggestVars, moreVars>>

Init == InitCache /\ InitLists /\ InitSuggestIdle /\ InitMoreIdle

\* getMovie and the request coordinator.
Next == NextCache
Spec == Init /\ [][Next]_vars

\* suggestMovie's progressive fallback.
InitSuggest == InitCache /\ InitLists /\ SuggestStarts /\ InitMoreIdle
SpecSuggest == InitSuggest /\ [][NextSuggest]_vars

\* shuffleMovie.
InitShuffle ==
  InitCache /\ InitLists /\ InitSuggestIdle /\ MoreIdleExcept("shuffle") /\ ShuffleStarts
SpecShuffle == InitShuffle /\ [][NextShuffle]_vars

\* suggestMovie's random popular movie; the resolver is resumed whenever a
\* sampling call has settled.
InitPopular ==
  InitCache /\ InitLists /\ InitSuggestIdle /\ MoreIdleExcept("popular") /\ PopularStarts
SpecPopular == InitPopular /\ [][NextPopular]_vars /\ WF_vars(NextPopular)

\* getRandomMovie and getRandomMovieFromSource.
SpecRandom == Init /\ [][NextRandom]_vars

\* getRandomActorFromSource.
InitActor ==
  InitCache /\ InitLists /\ InitSuggestIdle /\ MoreIdleExcept("actor") /\ ActorStarts
SpecActor == InitActor /\ [][NextActor]_vars

\* The filter methods.
InitFilter ==
  InitCache /\ InitLists /\ InitSuggestIdle /\ MoreIdleExcept("filter") /\ FilterStarts
SpecFilter == InitFilter /\ [][NextFilter]_vars

\* calculateCollectionInsights.
InitInsights ==
  InitCache /\ InitLists /\ InitSuggestIdle /\ MoreIdleExcept("insights") /\ InsightsStarts
SpecInsights == InitInsights /\ [][NextInsights]_vars

\* buildDiscoverParams.
InitBuild ==
  InitCache /\ InitLists /\ InitSuggestIdle /\ MoreIdleExcept("build") /\ BuildStarts
SpecBuild == InitBuild /\ [][NextBuild]_vars

\* extractActorsFromMovies.
InitExtract ==
  InitCache /\ InitLists /\ InitSuggestIdle /\ MoreIdleExcept("extract") /\ ExtractStarts
SpecExtract == InitExtract /\ [][NextExtract]_vars

\* suggestMovieRound's fill loops.
InitRound ==
  InitCache /\ InitLists /\ InitSuggestIdle /\ MoreIdleExcept("round") /\ RoundStarts
SpecRound == InitRound /\ [][NextRound]_vars

\* The search methods.
InitSearch ==
  InitCache /\ InitLists /\ InitSuggestIdle /\ MoreIdleExcept("search") /\ InitSearchIdle
SpecSearch == InitSearch /\ [][NextSearch]_vars

\* filterMoviesByCollections.
InitCollectionFilter ==
  InitCache /\ InitLists /\ InitSuggestIdle /\ MoreIdleExcept("collectionFilter")
    /\ CollectionFilterStarts
SpecCollectionFilter == InitCollectionFilter /\ [][NextCollectionFilter]_vars

\* addToSuggestHistory.
InitHistory ==
  InitCache /\ InitLists /\ InitSuggestIdle /\ MoreIdleExcept("history") /\ HistoryStarts
SpecHistory == InitHistory /\ [][NextHistory]_vars

\* The collection mutations.
InitCollections ==
  InitCache /\ InitLists /\ InitSuggestIdle /\ MoreIdleExcept("collections")
    /\ InitCollectionsIdle
SpecCollections == InitCollections /\ [][NextCollections]_vars

\* getGenres and getPageMetadata.
SpecLists == Init /\ [][NextLists]_vars

(***************************************************************************)
(* Properties of the cache and request coordinator.                        *)
(***************************************************************************)
\* The promises getCachedOrRequest registered in pendingRequests.
Registered == {p \in DOMAIN promises : promises[p].gcr # ""}

\* The getCachedOrRequest invocations for the key of promise p.
CallsFor(p) ==
  {i \in DOMAIN log : /\ log[i].how # "direct"
                      /\ log[i].cacheKey = promises[p].dom
                      /\ log[i].id = promises[p].id}

\* Those issued from the invocation that started p until p settled.
Window(p) ==
  {i \in CallsFor(p) : /\ i >= promises[p].createdAt
                       /\ promises[p].st = "pending" \/ i <= promises[p].settledAt}

\* The promises whose requestFn was invoked by invocation i.
StartedBy(i) == {q \in Registered : promises[q].createdAt = i}

ResultOf(p) == [ok |-> promises[p].st = "ok", v |-> promises[p].val, p |-> p]

\* C1: the calls for one key issued before the first one's fetch resolves
\* invoke the fetch function exactly once (the first does), all of them
\* await that one promise, and every caller receives its result.
C1_Coalescing ==
  \A p \in Registered :
    /\ \A i \in Window(p) :
         /\ log[i].p = p
         /\ log[i].how = (IF i = promises[p].createdAt THEN "fetch" ELSE "join")
         /\ log[i].pc = "done" => log[i].res = ResultOf(p)
    /\ Cardinality(UNION {StartedBy(i) : i \in Window(p)}) = 1

C1_Witness ==
  \E p \in Registered :
    /\ promises[p].st = "ok"
    /\ Cardinality({i \in Window(p) : log[i].top /\ log[i].pc = "done"
                                       /\ log[i].res.ok}) >= 3

\* C2: a call made while the last stored entry of its key is younger than
\* its ttl returns the stored data and starts no upstream request.
C2_HitWithinTtl ==
  \A i \in DOMAIN log :
    (log[i].how # "direct" /\ log[i].fresh) =>
      /\ log[i].how = "hit"
      /\ log[i].v = promises[log[i].last].val
      /\ StartedBy(i) = {}
      /\ log[i].top => log[i].pc = "done" /\ log[i].res.ok
                       /\ log[i].res.v = promises[log[i].last].val

C2_Witness ==
  \E i \in DOMAIN log :
    /\ log[i].top /\ log[i].how = "hit" /\ log[i].fresh
    /\ log[i].cacheKey = "movie"
    /\ log[i].res.v = promises[log[i].last].val

\* Invocation i is the first one for its key since the entry that
\* invocation saw last stored went out of date.
FirstAfterExpiry(i) ==
  /\ log[i].how # "direct"
  /\ log[i].last # 0
  /\ ~log[i].fresh
  /\ \A j \in CallsFor(log[i].last) :
       (j < i /\ log[j].last = log[i].last) => log[j].fresh

\* What the cache holds for the key of p once p has stored its value.
EntryOf(p) ==
  [data |-> promises[p].val, timestamp |-> promises[p].tsettle,
   ttl |-> promises[p].ttl]

\* C3: no call is answered from an entry whose age has reached its ttl; the
\* first call after the expiry starts exactly one upstream request, and a
\* successful request overwrites the entry with its data and its time.
C3_NoStaleEntry ==
  /\ \A i \in DOMAIN log :
       /\ log[i].how = "hit" =>
            log[i].fresh /\ log[i].v = promises[log[i].last].val
       /\ FirstAfterExpiry(i) =>
            log[i].how = "fetch" /\ Cardinality(StartedBy(i)) = 1
  /\ \A p \in Registered :
       (promises[p].st = "ok"
          /\ p = LastStored(promises, promises[p].dom, promises[p].id)) =>
         /\ cache[promises[p].dom][promises[p].id] = EntryOf(p)
         /\ promises[p].tsettle >= 0

C3_Witness ==
  \E i \in DOMAIN log :
    /\ FirstAfterExpiry(i)
    /\ log[i].cacheKey = "movie"
    /\ promises[log[i].p].st = "ok"
    /\ cache["movie"][log[i].id] = EntryOf(log[i].p)
    /\ promises[log[i].p].tsettle > promises[log[i].last].tsettle

\* Invocation i is the first one for the key of q after q settled.
FirstAfter(i, q) ==
  /\ i \in CallsFor(q)
  /\ i > promises[q].settledAt
  /\ \A j \in CallsFor(q) : j > promises[q].settledAt => i <= j

\* C5: a settled fetch has no entry in pendingRequests, and the calls that
\* start after a failed fetch has completed do not get that failure: the
\* first of them starts a new upstream request.
C5_PendingCleared ==
  /\ \A k \in PendingKeys :
       pendingRequests[k] # 0 => promises[pendingRequests[k]].st = "pending"
  /\ \A q \in Registered :
       promises[q].st = "err" =>
         \A i \in CallsFor(q) :
           i > promises[q].settledAt =>
             /\ log[i].p # q
             /\ log[i].res.p # q
             /\ FirstAfter(i, q) =>
                  log[i].how = "fetch" /\ Cardinality(StartedBy(i)) = 1

C5_Witness ==
  \E q \in Registered :
    /\ promises[q].st = "err"
    /\ promises[q].dom = "movie"
    /\ \E i \in CallsFor(q) :
         /\ FirstAfter(i, q)
         /\ log[i].how = "fetch"
         /\ log[i].pc = "done"
         /\ log[i].res.ok

\* C6: a failed fetch reaches the caller that started it and every caller
\* that awaited it, and the cache entry of its key is, from the call to the
\* failure, what it was before the call.
C6_FailureLeavesCache ==
  \A q \in Registered :
    /\ promises[q].st = "pending" =>
         cache[promises[q].dom][promises[q].id] = promises[q].before
    /\ promises[q].st = "err" =>
         /\ promises[q].after = promises[q].before
         /\ \A i \in Window(q) :
              log[i].top => /\ log[i].pc = "done"
                            /\ ~log[i].res.ok
                            /\ log[i].res.p = q

C6_Witness ==
  \E q \in Registered :
    /\ promises[q].st = "err"
    /\ promises[q].dom = "movie"
    /\ promises[q].before.timestamp >= 0
    /\ Cardinality({i \in Window(q) : log[i].top /\ ~log[i].res.ok}) >= 2

\* The promises of getMovieData.
MoviePromises == {p \in DOMAIN promises : promises[p].dom = "movie"}

\* C8: getMovie fails exactly when its detail request fails; a failed videos
\* request gives the empty video list and a failed credits request the
\* empty cast and crew, whatever the other sub-request did.
C8_OptionalSubRequests ==
  \A p \in MoviePromises :
    promises[p].st # "pending" =>
      /\ promises[p].st = "ok" <=> promises[p].req = "ok"
      /\ promises[p].st = "ok" =>
           /\ promises[p].val[1] = p
           /\ SrcFailed(promises, promises[p].vid) => promises[p].val[2] = 0
           /\ SrcFailed(promises, promises[p].cred) => promises[p].val[3] = 0
           /\ (promises[p].vid.k = "prom" /\ promises[promises[p].vid.p].st = "ok")
                => promises[p].val[2] = promises[p].vid.p
           /\ (promises[p].cred.k = "prom" /\ promises[promises[p].cred.p].st = "ok")
                => promises[p].val[3] = promises[p].cred.p
      /\ \A i \in DOMAIN log :
           (log[i].top /\ log[i].p = p) =>
             log[i].pc = "done" /\ (log[i].res.ok <=> promises[p].req = "ok")

C8_Witness ==
  /\ \E p \in MoviePromises :
       /\ promises[p].st = "ok"
       /\ SrcFailed(promises, promises[p].vid)
       /\ SrcFailed(promises, promises[p].cred)
       /\ \E i \in DOMAIN log :
            log[i].top /\ log[i].p = p /\ log[i].res = [ok |-> TRUE, v |-> <<p, 0, 0>>, p |-> p]

\* The pending keys of the per-id movie cache.
MoviePendingKeys == {PendingKey("movie", id) : id \in MovieIds}

\* The call just made: the last getMovie invocation of the log.
LastCall(l) == CHOOSE i \in DOMAIN l : l[i].top /\ \A j \in DOMAIN l : l[j].top => j <= i

\* getMovie called with an options object that has a key starts a detail
\* request of its own and leaves the movie cache alone.
FreshDetailRequest(m) ==
  /\ cache'["movie"] = cache["movie"]
  /\ Len(promises') > Len(promises)
  /\ LET p == Len(promises) + 1
     IN /\ promises'[p].dom = "movie" /\ promises'[p].id = m
        /\ promises'[p].req = "wait" /\ promises'[p].gcr = ""
        /\ log'[LastCall(log')].p = p

\* getMovie called without options, or with {}, is served through the
\* movie cache: answered from a fresh entry, or else by the promise that
\* pendingRequests holds for the movie after the call.
ServedThroughCache(m) ==
  LET e == log'[LastCall(log')]
  IN /\ e.cacheKey = "movie" /\ e.id = m
     /\ IF e.fresh
          THEN promises' = promises /\ e.pc = "done"
               /\ e.res.v = cache["movie"][m].data
          ELSE e.p # 0 /\ pendingRequests'[PendingKey("movie", m)] = e.p

\* C7 as stated: with an option no part of pendingRequests is touched.
C7_Original ==
  [][\A m \in MovieIds, o \in OptionValues, inc \in BOOLEAN :
       getMovie(m, o, inc) =>
         IF o.defined /\ o.keys # {}
           THEN FreshDetailRequest(m) /\ pendingRequests' = pendingRequests
           ELSE ServedThroughCache(m)]_vars

\* C7: getMovie called with an options object that has a key neither reads
\* nor writes the movie cache or the movie's entry of pendingRequests and
\* always starts a detail request of its own (its videos and credits
\* sub-requests still go through their caches and pendingRequests);
\* getMovie called without options or with {} is served through the cache.
C7_OptionsBypassMovieCache ==
  [][\A m \in MovieIds, o \in OptionValues, inc \in BOOLEAN :
       getMovie(m, o, inc) =>
         IF o.defined /\ o.keys # {}
           THEN /\ FreshDetailRequest(m)
                /\ \A k \in MoviePendingKeys : pendingRequests'[k] = pendingRequests[k]
           ELSE ServedThroughCache(m)]_vars

C7_Witness ==
  \E i, j \in DOMAIN log :
    /\ log[i].how = "direct" /\ log[i].fresh
    /\ log[i].pc = "done" /\ log[i].res.ok
    /\ log[i].res.v # cache["movie"][log[i].id].data
    /\ log[j].top /\ log[j].how = "hit"

(***************************************************************************)
(* Properties of the methods with a cache of their own.                    *)
(***************************************************************************)
\* The invocations whose upstream request is out.
InFlight == {i \in DOMAIN listCalls : listCalls[i].pc = "await"}

\* C4: at most one upstream request is in flight per cache key, also for
\* the genre list and the page metadata: a call that overlaps another one
\* on a cache miss awaits the first call's request.
C4_OneInFlightPerKey ==
  \A i, j \in InFlight : listCalls[i].key = listCalls[j].key => i = j
(***************************************************************************)
(* Properties of suggestMovie's progressive fallback.                      *)
(***************************************************************************)
Range(sq) == {sq[k] : k \in 1..Len(sq)}

\* The constraints a variant puts on the movies: one per genre, cast
\* member, crew member and keyword, and one for the year range.
Constraints(p) ==
  {<<"genre", g>> : g \in Range(p.genres)}
    \cup {<<"actor", a>> : a \in Range(p.actors)}
    \cup {<<"crew", c>> : c \in Range(p.crew)}
    \cup {<<"keyword", w>> : w \in Range(p.keywords)}
    \cup (IF Len(p.yearRange) = 2
            THEN {<<"year", p.yearRange[1] * 10000 + p.yearRange[2]>>}
            ELSE {})

\* The variant list has been built.
Built == spc \in {"loop", "await", "found", "done", "error", "failed"}

\* Variant k puts back a constraint that variant k - 1 had dropped.
Reintroduces(k) ==
  ~(Constraints(fallbackParams[k]) \subseteq Constraints(fallbackParams[k - 1]))

\* C9 as stated: the first variant is the full criteria and every later
\* variant's constraints are a strict subset of its predecessor's.
C9_Original ==
  Built =>
    /\ fallbackParams[1] = buildDiscoverParams(filters, FALSE)
    /\ \A k \in 2..Len(fallbackParams) :
         /\ Constraints(fallbackParams[k]) \subseteq Constraints(fallbackParams[k - 1])
         /\ Constraints(fallbackParams[k]) # Constraints(fallbackParams[k - 1])

\* C9, amended: the first variant is the full criteria; the variants are
\* pairwise different; every later variant's genre, cast, crew and keyword
\* constraints are among the first variant's, and its year range is
\* absent, the first variant's, or the era's range (when the explicit year
\* range was taken out and an era is set).  Each variant is derived from
\* the full criteria and not from its predecessor, so the list is not
\* ordered by inclusion.
C9_RelaxationsOfFull ==
  Built =>
    /\ fallbackParams[1] = buildDiscoverParams(filters, FALSE)
    /\ \A j, k \in 1..Len(fallbackParams) :
         j # k => fallbackParams[j] # fallbackParams[k]
    /\ \A k \in 2..Len(fallbackParams) :
         /\ Range(fallbackParams[k].genres) \subseteq Range(fallbackParams[1].genres)
         /\ Range(fallbackParams[k].actors) \subseteq Range(fallbackParams[1].actors)
         /\ Range(fallbackParams[k].crew) \subseteq Range(fallbackParams[1].crew)
         /\ Range(fallbackParams[k].keywords) \subseteq Range(fallbackParams[1].keywords)
         /\ fallbackParams[k].yearRange \in
              {<<>>, fallbackParams[1].yearRange, getEraYearRange(filters.era)}

\* mood, crew and cast are all set, and the variant that drops the crew
\* has the mood keywords that its predecessor dropped.
C9_Witness ==
  /\ Built
  /\ hasMood(filters) /\ hasCrew(filters) /\ hasActors(filters)
  /\ Len(fallbackParams) >= 4
  /\ \E k \in 2..Len(fallbackParams) : Reintroduces(k)

\* C10 as stated: with an explicit year range every variant and every
\* discover call carries it, and no movie outside it is returned.
C10_Original ==
  (Built /\ hasYearRange(filters)) =>
    /\ \A k \in 1..Len(fallbackParams) :
         fallbackParams[k].yearRange = filters.yearRange.v
    /\ \A k \in 1..Len(issued) : issued[k].yearRange = filters.yearRange.v
    /\ spc = "done" => InYearRange(selectedMovie, filters.yearRange.v)

\* C10, amended: with an explicit year range the first variant carries it
\* and every discover call issued is the next variant of the list, with or
\* without the year range; a movie outside the range is returned only from
\* a variant without the range, after every earlier variant came back
\* empty; the no-results error is raised only after every variant, those
\* without the year range included, came back empty.
C10_YearRangeFirstOnly ==
  (Built /\ hasYearRange(filters)) =>
    /\ fallbackParams[1].yearRange = filters.yearRange.v
    /\ Len(issued) <= Len(fallbackParams)
    /\ \A k \in 1..Len(issued) : issued[k] = fallbackParams[k]
    /\ spc = "done" =>
         /\ InYearRange(selectedMovie, issued[Len(issued)].yearRange)
         /\ ~InYearRange(selectedMovie, filters.yearRange.v) =>
              issued[Len(issued)].yearRange # filters.yearRange.v
    /\ spc = "error" => Len(issued) = Len(fallbackParams) /\ tmdbMovies = <<>>

\* An explicit year range was given, the variants with it came back empty
\* and the movie returned is outside it.
C10_Witness ==
  /\ spc = "done"
  /\ hasYearRange(filters)
  /\ Len(issued) >= 2
  /\ issued[1].yearRange = filters.yearRange.v
  /\ ~InYearRange(selectedMovie, filters.yearRange.v)
\* C11: suggestMovie issues the discover calls one at a time and in list
\* order, issues none after a call that returned a non-empty result, picks
\* its movie from the results of the call that ended the loop, and raises
\* the no-results error only after the call for the last variant, and so
\* every call before it, returned an empty result.
C11_InOrderUntilFound ==
  /\ [](Built =>
          /\ Len(issued) <= Len(fallbackParams)
          /\ \A k \in 1..Len(issued) : issued[k] = fallbackParams[k]
          /\ spc = "done" => selectedMovie \in Range(tmdbMovies)
          /\ spc = "error" => Len(issued) = Len(fallbackParams) /\ tmdbMovies = <<>>)
  /\ [][issued' # issued =>
          /\ spc = "loop" /\ tmdbMovies = <<>>
          /\ issued' = Append(issued, fallbackParams[Len(issued) + 1])]_vars

\* The loop stopped at a variant that is neither the first nor the last.
C11_Witness ==
  /\ spc = "done"
  /\ Len(issued) >= 2 /\ Len(issued) < Len(fallbackParams)
  /\ selectedMovie \in Range(tmdbMovies)
(***************************************************************************)
(* Properties of shuffleMovie.                                             *)
(***************************************************************************)
\* The arguments supply a strict filter, whatever its value.
SuppliesStrictFilter(args) ==
  \/ args.yearRange.def \/ args.runtimeRange.def
  \/ args.minVoteAverage.def \/ args.minVoteCount.def
  \/ args.originalLanguage.def \/ args.popularityRange.def
  \/ args.popularityLevel.def \/ args.watchProviders.def
  \/ args.excludeGenres.def \/ args.excludeCast.def \/ args.excludeCrew.def
  \/ args.originCountries.def \/ args.keywordIds.def

SuppliesEffectiveStrictFilter(args) ==
  \/ args.yearRange.def \/ args.runtimeRange.def
  \/ (args.minVoteAverage.def /\ args.minVoteAverage.v # 0)
  \/ (args.minVoteCount.def /\ args.minVoteCount.v # 0)
  \/ (args.originalLanguage.def /\ args.originalLanguage.v # "")
  \/ args.popularityRange.def
  \/ (args.popularityLevel.def /\ args.popularityLevel.v # "")
  \/ (args.watchProviders.def /\ args.watchProviders.v # "")
  \/ args.excludeGenres.def \/ args.excludeCast.def \/ args.excludeCrew.def
  \/ args.originCountries.def \/ args.keywordIds.def

C13_BoundedSampling ==
  /\ [](ppc # "idle" =>
          /\ retries <= maxRetries /\ fallbackRetries <= maxFallbackRetries
          /\ fallbackRetries > 0 => retries = maxRetries
          /\ sampled - (retries + fallbackRetries) \in {0, 1}
          /\ sampled > retries + fallbackRetries =>
               retries = maxRetries /\ fallbackRetries = maxFallbackRetries
          /\ ppc = "done" =>
               /\ randomMovie \in PopularIds
               /\ randomMovie \in historySet => retries = maxRetries /\ sampled > maxRetries
               /\ randomMovie \in selectedMovieIdsSet =>
                    sampled = maxRetries + maxFallbackRetries + 1
          /\ ppc # "done" => randomMovie = 0)
  /\ <>(ppc \in {"done", "failed"})

\* Both budgets were used up and a selected movie was returned.
C13_Witness ==
  /\ ppc = "done"
  /\ randomMovie \in selectedMovieIdsSet
  /\ retries = maxRetries /\ fallbackRetries = maxFallbackRetries
  /\ sampled = maxRetries + maxFallbackRetries + 1
(***************************************************************************)
(* Properties of getRandomMovie and getRandomMovieFromSource.              *)
(***************************************************************************)
\* The invocations that have their page metadata.
WithMetadata ==
  {i \in DOMAIN randomCalls :
     /\ randomCalls[i].pc \in {"awaitPage", "done", "failed"}
     /\ randomCalls[i].error # "Failed to get page metadata"}

\* C14: an invocation issues at most two upstream calls: the page-1
\* request, which it skips when the page metadata is cached, and at most
\* one request of the random page, which it skips when that page is 1 or
\* there is one page only.
C14_AtMostTwoUpstreamCalls ==
  \A i \in DOMAIN randomCalls :
    LET c == randomCalls[i]
        first == IF c.hit THEN 0 ELSE 1
    IN /\ c.upstream <= 2
       /\ c.upstream \in {first, first + 1}
       /\ c.upstream = first + 1 =>
            /\ c.randomPage > 1 /\ c.totalPages > 1
            /\ c.pc \in {"awaitPage", "done", "failed"}
       /\ (c.pc = "done" /\ (c.randomPage = 1 \/ c.totalPages = 1)) =>
            c.upstream = first

\* One invocation made two upstream calls, a later one none.
C14_Witness ==
  \E i, j \in DOMAIN randomCalls :
    /\ i < j
    /\ randomCalls[i].pc = "done" /\ randomCalls[i].upstream = 2
    /\ randomCalls[j].pc = "done" /\ randomCalls[j].hit /\ randomCalls[j].upstream = 0

\* The page count the upstream reported, capped at MAX_PAGES; a response
\* that reports none is taken to have MAX_PAGES.
CappedPages(reported) ==
  IF reported = NoTotalPages \/ reported > MAX_PAGES THEN MAX_PAGES ELSE reported

\* C15: the no-results error is raised exactly when the upstream reports
\* zero total pages or page 1 has no items; otherwise the page requested
\* is between 1 and the reported page count capped at 500, and the item
\* returned is one of that page, or one of page 1 when the page chosen is
\* page 1 or came back empty.
C15_NoResultsOrPageInRange ==
  \A i \in WithMetadata :
    LET c == randomCalls[i]
    IN /\ c.error = "No movies found" <=>
            (c.reported = 0 \/ Len(c.firstPageResults) = 0)
       /\ c.randomPage # 0 =>
            c.randomPage >= 1 /\ c.randomPage <= CappedPages(c.reported)
       /\ c.pc = "done" =>
            \/ c.movies # <<>> /\ c.result \in Range(c.movies)
            \/ /\ c.movies = <<>> /\ c.result \in Range(c.firstPageResults)
(***************************************************************************)
(* Properties of getRandomActorFromSource.                                 *)
(***************************************************************************)
\* The credits calls made before the k-th gave no cast.
EarlierGaveNoCast(k) ==
  \A j \in 1..(k - 1) :
    creditsFetched[j].settled /\ creditsFetched[j].cast = <<>>

\* C16: getRandomActorFromSource samples at most maxRetries movies, never
\* fetches credits twice for one movie id, samples again whenever the cast
\* is empty and attempts remain, returns an actor of the first tried movie
\* with a non-empty cast, and raises 'No actors found' only when the
\* attempts are used up; with three distinct movies, the first two without
\* cast, and maxRetries = 3 it returns an actor of the third.
C16_BoundedDistinctRetries ==
  /\ Len(sampledMovies) <= maxRetries_actor
  /\ \A j, k \in DOMAIN creditsFetched :
       j # k => creditsFetched[j].movie # creditsFetched[k].movie
  /\ \A k \in DOMAIN creditsFetched :
       (creditsFetched[k].settled /\ creditsFetched[k].cast = <<>>
          /\ attempts < maxRetries_actor)
         => (k < Len(creditsFetched) \/ apc = "awaitMovie"
               \/ actorResult.kind = "No movies found")
  /\ apc = "done" =>
       LET k == Len(creditsFetched)
       IN /\ k > 0
          /\ actorResult.movie = creditsFetched[k].movie
          /\ actorResult.actor \in Range(creditsFetched[k].cast)
          /\ EarlierGaveNoCast(k)
  /\ actorResult.kind = "No actors found" => attempts >= maxRetries_actor
  /\ (/\ maxRetries_actor = 3
      /\ Len(creditsFetched) = 3
      /\ sampledMovies = [k \in 1..3 |-> creditsFetched[k].movie]
      /\ EarlierGaveNoCast(3) /\ creditsFetched[1].ok /\ creditsFetched[2].ok
      /\ creditsFetched[3].settled /\ creditsFetched[3].cast # <<>>)
       => (apc = "done" /\ actorResult.movie = creditsFetched[3].movie
             /\ actorResult.actor \in Range(creditsFetched[3].cast))

\* Three distinct movies, the first two without cast, an actor of the third.
C16_Witness ==
  /\ maxRetries_actor = 3
  /\ Len(creditsFetched) = 3
  /\ creditsFetched[1].ok /\ creditsFetched[2].ok /\ EarlierGaveNoCast(3)
  /\ apc = "done"
  /\ actorResult.movie = creditsFetched[3].movie

\* A movie sampled a second time was skipped and the budget then ran out.
C16_WitnessSkip ==
  /\ \E j, k \in DOMAIN sampledMovies : j < k /\ sampledMovies[j] = sampledMovies[k]
  /\ actorResult.kind = "No actors found"
(***************************************************************************)
(* Properties of the filter methods.                                       *)
(***************************************************************************)
\* The people whose lookup succeeded and gave the role asked for, in order.
RECURSIVE Matching(_)
Matching(ps) ==
  IF ps = <<>> THEN <<>>
  ELSE (IF personCredits[Head(ps)].ok
             /\ KeepsRole(getPersonRoleInfo(personCredits[Head(ps)]))
          THEN <<Head(ps)>> ELSE <<>>) \o Matching(Tail(ps))

\* C17: a failed combined-credits lookup never makes a filter call fail;
\* the person is taken as not matching and the others are classified and
\* returned.
C17_LookupFailureIsSoft ==
  /\ fpc # "failed"
  /\ (fpc = "done" /\ roleType # "both") => filtered = Matching(people)
(***************************************************************************)
(* Properties of calculateCollectionInsights.                              *)
(***************************************************************************)
\* The movies of the collection whose detail fetch succeeded.
FetchedIds ==
  {id \in InsightMovieIds :
     tmdbData[id].movieOk /\ \E k \in DOMAIN collectionMovies : collectionMovies[k] = id}

\* The number of fetched movies whose list `what` holds x.
Occurrences(what, x) ==
  Cardinality({id \in FetchedIds :
    LET m == tmdbData[id].movie
        l == CASE what = "genres" -> m.genres
               [] what = "cast" -> m.cast
               [] what = "crew" -> CountedCrew(m.crew)
               [] what = "keywords" -> keywordResult(id)
    IN \E k \in DOMAIN l : l[k] = x})

\* A count list holds exactly the ids that occur, each with its number of
\* fetched movies.
CountsFetchedOnly(list, what) ==
  /\ \A k \in DOMAIN list : list[k].count = Occurrences(what, list[k].id)
  /\ \A x \in 1..9 : Occurrences(what, x) > 0 <=> \E k \in DOMAIN list : list[k].id = x
  /\ \A j, k \in DOMAIN list : j # k => list[j].id # list[k].id

\* C18: upstream fetch failures never make calculateCollectionInsights
\* fail; an empty collection and a collection whose every movie fetch
\* fails give the all-empty result; a movie whose detail fetch fails adds
\* nothing to any count, its keywords included.
C18_FetchFailuresAreSoft ==
  /\ ipc # "failed"
  /\ \A r \in DOMAIN insightsRuns :
       LET res == insightsRuns[r]
       IN /\ FetchedIds = {} => res = emptyInsights
          /\ res.totalMovies = Cardinality(FetchedIds)
          /\ CountsFetchedOnly(res.moviesByGenre, "genres")
          /\ CountsFetchedOnly(res.topKeywords, "keywords")
          /\ CountsFetchedOnly(res.topActors, "cast")
          /\ CountsFetchedOnly(res.topCrew, "crew")

\* A run over two movies of which one could not be fetched, though its
\* keywords could.
C18_Witness ==
  /\ Len(insightsRuns) > 0
  /\ Len(collectionMovies) = 2
  /\ Cardinality(FetchedIds) = 1
  /\ \E id \in InsightMovieIds : ~tmdbData[id].movieOk /\ tmdbData[id].keywordsOk
  /\ insightsRuns[1].totalMovies = 1

\* A run over a non-empty collection of which no movie could be fetched.
C18_WitnessAllFail ==
  /\ Len(insightsRuns) > 0
  /\ Len(collectionMovies) = 2
  /\ FetchedIds = {}
  /\ insightsRuns[1] = emptyInsights

\* Entries with equal counts are in ascending id order.
TiesById(list) ==
  \A j, k \in DOMAIN list :
    (j < k /\ list[j].count = list[k].count) => list[j].id < list[k].id

\* C19: two runs on the same collection and upstream data give the same
\* counts and top-N lists, and in each top-N list entries with equal
\* counts are in ascending id order.
C19_SameResultTiesById ==
  /\ \A r, q \in DOMAIN insightsRuns : insightsRuns[r] = insightsRuns[q]
  /\ \A r \in DOMAIN insightsRuns :
       /\ TiesById(insightsRuns[r].topKeywords)
       /\ TiesById(insightsRuns[r].topActors)
       /\ TiesById(insightsRuns[r].topCrew)
(***************************************************************************)
(* Properties of buildDiscoverParams.                                      *)
(***************************************************************************)
\* All elements of an input list, and its first element only.
AllOf(l) == IF l.def THEN l.v ELSE <<>>
FirstOf(l) == IF l.def /\ Len(l.v) > 0 THEN <<l.v[1]>> ELSE <<>>
Taken(l) == IF buildArgs.useSingle THEN FirstOf(l) ELSE AllOf(l)

\* The input field the actors list is taken from: actors, or cast when no
\* actors field is given.
ActorsInput == IF buildArgs.filters.actors.def THEN buildArgs.filters.actors
               ELSE buildArgs.filters.cast

\* C20 as stated: with useSingle each of genres, cast, crew and keywords
\* holds at most one element, the first of its input field; without it
\* each holds all input elements.
C20_SingleValuePerField ==
  bpc = "returned" =>
    /\ builtParams.genres = Taken(buildArgs.filters.genres)
    /\ builtParams.actors = Taken(ActorsInput)
    /\ builtParams.crew = Taken(buildArgs.filters.crew)
    /\ builtParams.keywords = Taken(buildArgs.filters.keywords)

\* C20: genres, actors and crew hold the first element of their input
\* field with useSingle and all its elements without; keywords holds the
\* mood's keywords, the first only with useSingle, followed by the input
\* keywords, the first only with useSingle: at most two with useSingle.
C20_SingleValuePerSource ==
  bpc = "returned" =>
    /\ builtParams.genres = Taken(buildArgs.filters.genres)
    /\ builtParams.actors = Taken(ActorsInput)
    /\ builtParams.crew = Taken(buildArgs.filters.crew)
    /\ builtParams.keywords =
         Taken(List(MOOD_TO_KEYWORDS(buildArgs.filters.mood)))
           \o Taken(buildArgs.filters.keywords)
    /\ buildArgs.useSingle => Len(builtParams.keywords) <= 2

\* A single-value call with a mood that has keywords, explicit keywords,
\* and both actors and cast.
C20_Witness ==
  /\ bpc = "returned"
  /\ buildArgs.useSingle
  /\ buildArgs.filters.mood = "intense"
  /\ buildArgs.filters.actors = List(<<500, 501>>)
  /\ buildArgs.filters.cast = List(<<510, 511>>)
  /\ builtParams.keywords = <<207317, 700>>
  /\ builtParams.actors = <<500>>
(***************************************************************************)
(* Properties of shouldTryFallback.                                        *)
(***************************************************************************)
\* C21: shouldTryFallback is true exactly when one of genres, cast/actors,
\* crew and keywords has more than one element, that is exactly when the
\* single-value variant differs from the full one.
C21_TrueIffMultiValued ==
  shouldTry # <<>> =>
    LET f == buildArgs.filters
    IN /\ shouldTry[1] <=>
            \/ Len(AllOf(f.genres)) > 1
            \/ Len(AllOf(ActorsInput)) > 1
            \/ Len(AllOf(f.crew)) > 1
            \/ Len(AllOf(f.keywords)) > 1
       /\ shouldTry[1] <=>
            buildDiscoverParams(f, TRUE) # buildDiscoverParams(f, FALSE)
(***************************************************************************)
(* Properties of the batch operations.                                     *)
(***************************************************************************)
\* C22: no item of batch k+1 is started before every item of batch k has
\* completed, so the items in progress never exceed the batch size (5 for
\* extraction).
C22_BatchesInSequence ==
  /\ Cardinality({k \in DOMAIN creditsCalls : creditsCalls[k] = "running"})
       <= extractBatchSize
  /\ \A j, k \in DOMAIN creditsCalls :
       (BatchOf(j) < BatchOf(k) /\ creditsCalls[k] # "notStarted")
         => creditsCalls[j] \in {"credits", "null"}
(***************************************************************************)
(* Properties of suggestMovieRound.                                        *)
(***************************************************************************)
\* C23: every fill loop is capped by a retry or attempt counter: each
\* sampling call either raises the loop's counter, or is followed by the
\* fetch of a movie that is not yet in the list, or ends the loop; so the
\* sampling calls are bounded also when the popular source keeps returning
\* movies that are already in the list.
C23_FillLoopsCapped ==
  [][roundSampled' > roundSampled =>
       \/ fillRetries' > fillRetries
       \/ rpc' # rpc]_vars
(***************************************************************************)
(* Properties of the search methods.                                       *)
(***************************************************************************)
\* C24: distinct (domain, key) pairs have distinct cache keys, so a lookup
\* in one domain is never answered with an entry another domain wrote.
C24_SearchKeysDisjoint ==
  \A i \in DOMAIN searchCalls :
    searchCalls[i].hit =>
      /\ searchCalls[i].entry.domain = searchCalls[i].domain
      /\ searchCalls[i].entry.query = Normalize(searchCalls[i].query)
      /\ searchCalls[i].entry.options = searchCalls[i].options

\* C30: a call answered from a valid cache entry returns what the
\* upstream-answered call that wrote the entry returned for the same
\* limit, whatever the limit.
C30_SearchCacheTransparent ==
  \A i \in DOMAIN searchCalls :
    searchCalls[i].hit =>
      searchCalls[i].result =
        FromUpstream(searchCalls[i].entry.results, searchCalls[i].limit)

(***************************************************************************)
(* Properties of the collection mutations.                                 *)
(***************************************************************************)
\* C25: a collection mutation called by a user who does not own the
\* collection, or on a collection that does not exist, fails and leaves
\* the collections and the collection movies as they were.
C25_OwnershipBeforeWrite ==
  (lastMutation.op \in {"updateCollection", "deleteCollection",
                        "addMovieToCollection", "removeMovieFromCollection"}
     /\ lastMutation.check # "ok")
    => (lastMutation.threw /\ ~lastMutation.changed)

(***************************************************************************)
(* Properties of the suggest history.                                      *)
(***************************************************************************)
AllHistoryCallsCompleted ==
  /\ \A i \in HistoryCallIds : historyCalls[i].pc \in {"idle", "done"}
  /\ \E i \in HistoryCallIds : historyCalls[i].pc = "done"

MostRecent ==
  LET n == Len(recency)
      k == IF n < historyLimit THEN n ELSE historyLimit
  IN {recency[n + 1 - j] : j \in 1..k}

\* C26: once the addToSuggestHistory calls of a user have completed,
\* overlapping or not, the history has at most 10 rows, no movie twice,
\* and its movies are the (up to) 10 written last.
C26_HistoryIsLastTen ==
  AllHistoryCallsCompleted =>
    /\ Len(historyRows) <= historyLimit
    /\ Cardinality(RowTmdbIds) = Len(historyRows)
    /\ RowTmdbIds = MostRecent

(***************************************************************************)
(* Properties of filterMoviesByCollections.                                *)
(***************************************************************************)
\* C27: when an inclusion set is passed, empty or not, every movie of the
\* result is in it; no movie of the result is in the exclusion set or,
\* when notInAnyCollection is set, in the set of all collection movies.
\* (The result is a sub-list of the input in the input's order by
\* construction of the filter.)
C27_ResultWithinInclusionSet ==
  cfpc = "returned" =>
    \A k \in DOMAIN cfResult :
      /\ cfArgs.inCollectionIds.def => cfResult[k] \in cfArgs.inCollectionIds.v
      /\ cfArgs.excludeCollectionIds.def => cfResult[k] \notin cfArgs.excludeCollectionIds.v
      /\ (cfArgs.notInAnyCollection /\ cfArgs.allCollectionMovieIds.def)
           => cfResult[k] \notin cfArgs.allCollectionMovieIds.v

(***************************************************************************)
(* Properties of getMovie's entity.                                        *)
(***************************************************************************)
\* Promise q is a getMovieData that was told to leave the credits out.
WithoutCredits(q) == promises[q].cred = ValSrc(<<0>>)

\* C28: a getMovie call with default options and includeCredits = true is
\* not answered from a cache entry or an in-flight request that a call
\* with includeCredits = false made.
C28_CreditsAsAsked ==
  [][\A m \in MovieIds, o \in OptionValues :
       (shouldCache(o) /\ getMovie(m, o, TRUE)) =>
         LET e == log'[Len(log) + 1]
         IN /\ e.how = "hit" => ~WithoutCredits(e.last)
            /\ e.how = "join" => ~WithoutCredits(e.p)]_vars

\* The cached getMovieData promises that came through with a sub-request
\* failed.
Degraded ==
  {p \in MoviePromises \cap Registered :
     /\ promises[p].st = "ok"
     /\ SrcFailed(promises, promises[p].vid) \/ SrcFailed(promises, promises[p].cred)}

\* The getMovie calls with default options made while the entity of p is
\* the last one stored for its movie and younger than its ttl.
ServedWithin(p) ==
  {i \in CallsFor(p) : log[i].top /\ log[i].last = p /\ log[i].fresh}

\* C29: an entity whose videos or credits are the empty default because
\* the sub-request failed is stored in the movie cache like any other, and
\* every default-options getMovie call for its movie within the ttl
\* returns it and starts no upstream request.
C29_DegradedEntityServed ==
  \A p \in Degraded :
    /\ promises[p].after = EntryOf(p)
    /\ promises[p].ttl = CACHE_TTL_MOVIE
    /\ SrcFailed(promises, promises[p].vid) => promises[p].after.data[2] = 0
    /\ SrcFailed(promises, promises[p].cred) => promises[p].after.data[3] = 0
    /\ \A i \in ServedWithin(p) :
         /\ log[i].how = "hit"
         /\ StartedBy(i) = {}
         /\ {q \in DOMAIN promises : promises[q].createdAt = i} = {}
         /\ log[i].res = [ok |-> TRUE, v |-> promises[p].val, p |-> 0]

C29_Witness ==
  \E p \in Degraded :
    /\ SrcFailed(promises, promises[p].cred)
    /\ \E i \in ServedWithin(p) :
         /\ log[i].how = "hit"
         /\ log[i].res.v[3] = 0

====
